---- MODULE Spec2Model ----
(***************************************************************************)
(* Model of the actor comparison tool: the scout (evaluateActors scores    *)
(* every candidate, the ranking keeps the best maxActors) and the runner:  *)
(* the bounded-attempt control loop (processActor) that drives each        *)
(* selected candidate through generate-input -> parse -> invoke ->         *)
(* classify cycles, one loop per candidate, all of them concurrent.        *)
(*                                                                         *)
(* The repository holds three programs:                                    *)
(*   "part_000" : src/unnamed/part_000        (scout only)                 *)
(*   "part_001" : src/unnamed/part_001        (scout + runner)             *)
(*   "main_ts"  : src/my-actor/src/main.ts    (runner only)                *)
(* The variable `program` says which one a behaviour runs.                 *)
(*                                                                         *)
(* Conventions: a JS string is a TLA+ string; an optional value (T | null  *)
(* or an optional field) is a sequence of length 0 or 1; a JS object is    *)
(* the set of its <<key, value>> pairs.                                    *)
(***************************************************************************)
EXTENDS Integers, Sequences, FiniteSets, TLC

VARIABLES
    program,        \* which source file runs
    actorsToRun,    \* the selected candidates, in ranked order
    pc,             \* per loop: the await the loop is suspended at, or "done"
    attempt,        \* per loop: let attempt
    lastError,      \* per loop: let lastError: string | null
    generatedInput, \* per loop: let generatedInput (optional until parsed)
    prompt,         \* per loop: the prompt handed to generateText
    text,           \* per loop: the last answer of generateText (optional)
    run,            \* per loop: the last answer of client.actor().call (optional)
    result,         \* per loop: const result: ComparisonResult
    genCalls,       \* per loop: number of generateText calls made
    invokeCalls,    \* per loop: number of client.actor().call calls made
    listCalls,      \* per loop: number of listItems calls made
    heard,          \* per loop: the answers its awaits resumed with, in order
                    \* (kept by the steps of SpecReplay)
    finished,       \* the loops that have returned, in the order they returned
    stage,          \* the await the main program is suspended at
    maxActors,      \* const maxActors
    details,        \* the candidates handed to evaluateActors, in order
    evalAnswers,    \* the answers of the completion calls made so far, in order
    evaluations,    \* evaluateActors' results, then the array the ranking sorts
    ranked,         \* const ranked
    output,         \* the records handed to Actor.pushData (optional)
    actorInput,     \* what Actor.getInput() answers
    token,          \* process.env.APIFY_TOKEN (optional)
    found,          \* the items the store search answered (optional)
    called,         \* the collaborator calls the main program made before the
                    \* evaluation, in order
    thrown          \* the error the main program ended with (optional)

loopVars == <<pc, attempt, lastError, generatedInput, prompt, text, run, result,
              genCalls, invokeCalls, listCalls, heard>>

mainVars == <<stage, maxActors, details, evalAnswers, evaluations, ranked, output>>

startVars == <<actorInput, token, found, called, thrown>>

vars == <<program, actorsToRun, pc, attempt, lastError, generatedInput, prompt,
          text, run, result, genCalls, invokeCalls, listCalls, heard, finished,
          stage,
          maxActors, details, evalAnswers, evaluations, ranked, output,
          actorInput, token, found, called, thrown>>

----------------------------------------------------------------------------
(* Program constants *)

MAX_ATTEMPTS == 5

LIST_LIMIT == 5

Programs == {"part_001", "main_ts"}

query == "events"

(* Bounds of the model *)

\* largest number of items a candidate's default dataset holds
MaxDatasetItems == 6

----------------------------------------------------------------------------
(* Small helpers *)

None == <<>>

Some(v) == <<v>>

Min(a, b) == IF a < b THEN a ELSE b

StartsWith(s, p) == Len(s) >= Len(p) /\ SubSeq(s, 1, Len(p)) = p

Drop(s, n) == SubSeq(s, n + 1, Len(s))

\* JS truthiness of a value of type string | null
Truthy(e) == e # None /\ e[1] # ""

\* JS `a || b` on strings
OrElse(a, b) == IF a # "" THEN a ELSE b

EmptyObject == {}

\* the element of a one-element set; {F(x) : x \in {e}} computes e once
Only(S) == CHOOSE v \in S : TRUE

----------------------------------------------------------------------------
(* The selected candidates (storeActor) *)

StoreActor(c) ==
    IF c = 1
    THEN [username |-> "alice", name |-> "events-scraper", title |-> "",
          description |-> ""]
    ELSE IF c = 2
    THEN [username |-> "bob", name |-> "eventbrite", title |-> "Eventbrite",
          description |-> "Scrapes events"]
    ELSE [username |-> "carol", name |-> "meetup-" \o ToString(c), title |-> "Meetup",
          description |-> "Scrapes meetups"]

ActorId(c) == StoreActor(c).username \o "/" \o StoreActor(c).name

----------------------------------------------------------------------------
(* buildPrompt: the prompt is the sequence of its text segments, in order *)

FailureSection(previousError, att) ==
    << "PREVIOUS ATTEMPT " \o ToString(att - 1) \o "/" \o ToString(MAX_ATTEMPTS)
           \o " FAILED:",
       "Error: " \o previousError[1],
       "Please fix the input to address this error." >>

buildPrompt(actor, schema, q, previousError, att) ==
    << "Generate valid input JSON for this Apify actor.",
       "Actor: " \o OrElse(actor.title, actor.name),
       "Description: " \o OrElse(actor.description, "No description"),
       "Input Schema:",
       schema,
       "Requirements:",
       "- For URLs, use real accessible websites related to " \o q >>
    \o (IF Truthy(previousError) THEN FailureSection(previousError, att) ELSE << >>)
    \o << "JSON:" >>

----------------------------------------------------------------------------
(* Parsing the generated text: strip markdown fences, trim, JSON.parse *)

\* The markdown fence. A TLA+ string cannot hold a backtick: "~" stands for it.
Fence == "~~~"

\* text.replace(/FENCEjson?\n?/g, ''), FENCE being three backticks
RECURSIVE StripJsonFence(_)
StripJsonFence(s) ==
    IF s = "" THEN ""
    ELSE IF StartsWith(s, Fence \o "jso")
    THEN LET r1 == Drop(s, Len(Fence) + 3)
             r2 == IF StartsWith(r1, "n") THEN Drop(r1, 1) ELSE r1
             r3 == IF StartsWith(r2, "\n") THEN Drop(r2, 1) ELSE r2
         IN  StripJsonFence(r3)
    ELSE SubSeq(s, 1, 1) \o StripJsonFence(Drop(s, 1))

\* .replace(/FENCE\n?/g, '')
RECURSIVE StripFence(_)
StripFence(s) ==
    IF s = "" THEN ""
    ELSE IF StartsWith(s, Fence)
    THEN LET r1 == Drop(s, Len(Fence))
             r2 == IF StartsWith(r1, "\n") THEN Drop(r1, 1) ELSE r1
         IN  StripFence(r2)
    ELSE SubSeq(s, 1, 1) \o StripFence(Drop(s, 1))

IsSpace(ch) == ch \in {" ", "\n", "\t"}

RECURSIVE TrimLeft(_)
TrimLeft(s) ==
    IF s # "" /\ IsSpace(SubSeq(s, 1, 1)) THEN TrimLeft(Drop(s, 1)) ELSE s

RECURSIVE TrimRight(_)
TrimRight(s) ==
    IF s # "" /\ IsSpace(SubSeq(s, Len(s), Len(s)))
    THEN TrimRight(SubSeq(s, 1, Len(s) - 1))
    ELSE s

\* .trim()
Trim(s) == TrimRight(TrimLeft(s))

Cleaned(t) == Trim(StripFence(StripJsonFence(t)))

\* The JSON documents the model knows, with the objects they denote
JsonA == "{\"a\":1}"

JsonB == "{\"b\":2}"

JsonParses(s) == s \in {JsonA, JsonB}

\* JSON.parse(s), for s with JsonParses(s)
JsonParse(s) == IF s = JsonA THEN {<<"a", 1>>} ELSE {<<"b", 2>>}

\* text.substring(0, 200)
Substring200(t) == SubSeq(t, 1, Min(200, Len(t)))

ParseErrorText(t) == "Failed to parse LLM response as JSON: " \o Substring200(t)

StatusErrorText(status) == "Run completed with status: " \o status

----------------------------------------------------------------------------
(* What the collaborators may answer.  An answer either returns a value or *)
(* throws an error with a message.                                         *)

Return(v) == [kind |-> "return", value |-> v]

Throw(msg) == [kind |-> "throw", message |-> msg]

\* client.actor(actorId).defaultBuild()
BuildResponses == {Return("buildClient"), Throw("Actor was not found")}

\* buildClient.get(), reduced to build?.actorDefinition?.input
GetResponses ==
    {Return(Some("{\"properties\":{}}")), Return(None), Throw("Build was not found")}

\* generateText(): plain JSON, fenced JSON, plainly fenced JSON, prose
GenTexts ==
    { JsonA,
      Fence \o "json\n" \o JsonB \o "\n" \o Fence,
      Fence \o "\n" \o JsonA \o "\n" \o Fence,
      "Sure! " \o JsonA }

GenResponses == {Return(t) : t \in GenTexts} \cup {Throw("Rate limit exceeded")}

\* Mutant: a text that does not parse is read as the empty input
InputRead_Lenient ==
    [t \in GenTexts |->
        IF JsonParses(Cleaned(t)) THEN Some(JsonParse(Cleaned(t))) ELSE Some(EmptyObject)]

\* what the inner try makes of every text generateText may answer: the
\* parsed input, or nothing when JSON.parse throws
InputRead ==
    [t \in GenTexts |->
        IF JsonParses(Cleaned(t)) THEN Some(JsonParse(Cleaned(t))) ELSE None]

\* the run object of client.actor(actorId).call()
Runs ==
    { [status |-> "SUCCEEDED", id |-> "run-1", defaultDatasetId |-> Some("ds-1"),
       durationMillis |-> Some(45000)],
      [status |-> "SUCCEEDED", id |-> "run-2", defaultDatasetId |-> None,
       durationMillis |-> None],
      [status |-> "FAILED", id |-> "run-3", defaultDatasetId |-> Some("ds-3"),
       durationMillis |-> Some(1000)],
      [status |-> "TIMED-OUT", id |-> "run-4", defaultDatasetId |-> Some("ds-4"),
       durationMillis |-> Some(120000)] }

CallResponses == {Return(r) : r \in Runs} \cup {Throw(""), Throw("Input is not valid")}

\* client.dataset(id).listItems({ limit }) on a dataset of n items
ListItems(n, limit) == [k \in 1..Min(n, limit) |-> [item |-> k]]

\* Mutant: listItems() is called without a limit
ListResponses_NoLimit ==
    {Return(ListItems(n, n)) : n \in 0..MaxDatasetItems}
        \cup {Throw("Dataset was not found")}

ListResponses ==
    {Return(ListItems(n, LIST_LIMIT)) : n \in 0..MaxDatasetItems}
        \cup {Throw("Dataset was not found")}

----------------------------------------------------------------------------
(* Numbers.  A JS number is NaN or a value; criterion scores and overall   *)
(* scores are held in tenths, weights in hundredths, weighted sums in      *)
(* thousandths, so that the arithmetic of the model is exact.              *)

JSNum(v) == [nan |-> FALSE, val |-> v]

JSNaN == [nan |-> TRUE, val |-> 0]

\* x - y
Minus(x, y) == IF x.nan \/ y.nan THEN JSNaN ELSE JSNum(x.val - y.val)

\* x + y
Plus(x, y) == IF x.nan \/ y.nan THEN JSNaN ELSE JSNum(x.val + y.val)

\* the property k of the object obj (optional: undefined when obj has no k)
Field(obj, k) ==
    IF \E p \in obj : p[1] = k
    THEN Some((CHOOSE p \in obj : p[1] = k)[2])
    ELSE None

----------------------------------------------------------------------------
(* evaluateActors: the overall score of one candidate *)

Criteria ==
    << "intentMatch", "documentation", "pricing", "reliability", "maintenance",
       "communityTrust", "inputComplexity" >>

\* const WEIGHTS, in hundredths
WEIGHTS ==
    [k \in {Criteria[j] : j \in DOMAIN Criteria} |->
        CASE k = "intentMatch" -> 30
          [] k = "documentation" -> 15
          [] k = "pricing" -> 15
          [] k = "reliability" -> 20
          [] k = "maintenance" -> 10
          [] k = "communityTrust" -> 5
          [] k = "inputComplexity" -> 5]

\* scores.k * WEIGHTS.k, in thousandths: undefined * w is NaN
Weighted(scores, k) ==
    IF Field(scores, k) = None THEN JSNaN ELSE JSNum(Field(scores, k)[1] * WEIGHTS[k])

\* the sum of the first j weighted criteria, added left to right
RECURSIVE WeightedSum(_, _)
WeightedSum(scores, j) ==
    IF j = 1 THEN Weighted(scores, Criteria[1])
    ELSE Plus(WeightedSum(scores, j - 1), Weighted(scores, Criteria[j]))

\* Math.round(overallScore * 10) / 10, in tenths.  Math.round rounds a half
\* up; the double-precision sum of an exact half lies on either side of it
\* (1*0.30 + 1*0.15 + 1*0.15 + 1*0.20 + 1*0.10 + 5*0.05 + 4*0.05 is
\* 1.3499999999999999), so an exact half rounds either way.
RoundOutcomes(sum) ==
    IF sum.nan THEN {JSNaN}
    ELSE IF sum.val % 100 = 50
    THEN {JSNum(sum.val \div 100), JSNum(sum.val \div 100 + 1)}
    ELSE {JSNum((sum.val + 50) \div 100)}

----------------------------------------------------------------------------
(* evaluateActors: the completion's content and its parsing *)

\* /FENCEjson\n?|\n?FENCE/ matches at the index i of s
FenceAt(s, i) ==
    \/ StartsWith(Drop(s, i - 1), Fence)
    \/ StartsWith(Drop(s, i - 1), "\n" \o Fence)

\* content.replace(/FENCEjson\n?|\n?FENCE/g, ''): the text up to the leftmost
\* match is kept, the match is dropped (the first alternative that matches
\* there), and the replacement goes on behind it
RECURSIVE StripEvalFence(_)
StripEvalFence(s) ==
    IF ~\E i \in 1..Len(s) : FenceAt(s, i) THEN s
    ELSE LET i == CHOOSE i \in 1..Len(s) :
                      FenceAt(s, i) /\ \A j \in 1..(i - 1) : ~FenceAt(s, j)
             m == Drop(s, i - 1)
             r == IF StartsWith(m, Fence \o "json")
                  THEN LET r1 == Drop(m, Len(Fence) + 4)
                       IN  IF StartsWith(r1, "\n") THEN Drop(r1, 1) ELSE r1
                  ELSE IF StartsWith(m, "\n" \o Fence)
                  THEN Drop(m, Len(Fence) + 1)
                  ELSE Drop(m, Len(Fence))
         IN  SubSeq(s, 1, i - 1) \o StripEvalFence(r)

\* (content || '{}').replace(...).trim()
EvalCleaned(content) == Trim(StripEvalFence(OrElse(content, "{}")))

\* the JSON text of a number given in tenths
NumText(t) ==
    IF t % 10 = 0 THEN ToString(t \div 10)
    ELSE ToString(t \div 10) \o "." \o ToString(t % 10)

\* the JSON text of the members ks[j]: vs[j], from the j-th on
RECURSIVE MembersText(_, _, _)
MembersText(ks, vs, j) ==
    IF j > Len(ks) THEN ""
    ELSE "\"" \o ks[j] \o "\":" \o NumText(vs[j])
             \o (IF j < Len(ks) THEN "," ELSE "") \o MembersText(ks, vs, j + 1)

\* the object with the members ks[j]: vs[j]
Members(ks, vs) == {<<ks[j], vs[j]>> : j \in DOMAIN ks}

\* A JSON document and the value it denotes, reduced to its scores member
ScoresDocument(ks, vs) ==
    [json |-> "{\"scores\":{" \o MembersText(ks, vs, 1) \o "}}",
     value |-> [scores |-> Some(Members(ks, vs))]]

\* the seven criterion scores an answer may carry, in tenths
ScoreVectors ==
    { <<70, 80, 80, 70, 70, 80, 80>>,
      <<80, 70, 70, 70, 70, 70, 90>>,
      <<80, 80, 80, 80, 80, 80, 80>>,
      <<10, 10, 10, 10, 10, 50, 40>>,
      <<100, 100, 100, 100, 100, 100, 100>>,
      <<110, 110, 110, 110, 110, 110, 110>>,
      <<0, 0, 0, 0, 0, 0, 0>> }

\* The JSON documents the model knows: the well-shaped ones, one without
\* inputComplexity, one with an eighth criterion, one with no criterion and
\* one with no scores member
EvalDocuments ==
    {ScoresDocument(Criteria, v) : v \in ScoreVectors}
        \cup { ScoresDocument(SubSeq(Criteria, 1, 6), <<70, 70, 70, 70, 70, 70>>),
               ScoresDocument(Criteria \o <<"speed">>,
                              <<90, 90, 90, 90, 90, 90, 90, 90>>),
               ScoresDocument(<< >>, << >>),
               [json |-> "{}", value |-> [scores |-> None]] }

EvalParses(s) == \E d \in EvalDocuments : d.json = s

\* JSON.parse(s), for s with EvalParses(s)
EvalParse(s) == (CHOOSE d \in EvalDocuments : d.json = s).value

\* openai.chat.completions.create(): every document plainly, one fenced, one
\* fenced after a line break, prose, an empty content, or an error
EvalTexts ==
    {d.json : d \in EvalDocuments}
        \cup { Fence \o "json\n" \o ScoresDocument(Criteria,
                                      <<80, 80, 80, 80, 80, 80, 80>>).json
                   \o "\n" \o Fence,
               "\n" \o Fence \o "json\n" \o ScoresDocument(Criteria,
                                      <<80, 80, 80, 80, 80, 80, 80>>).json
                   \o "\n" \o Fence,
               "I cannot score this Actor.",
               "" }

CompletionResponses == {Return(t) : t \in EvalTexts} \cup {Throw("Rate limit exceeded")}

\* the body of the try block throws: the call fails, JSON.parse throws, or
\* parsed.scores is undefined and reading scores.intentMatch throws
EvaluationFails(a) ==
    \/ a.kind = "throw"
    \/ ~EvalParses(EvalCleaned(a.value))
    \/ EvalParse(EvalCleaned(a.value)).scores = None

\* the entry results.push() appends for the candidate c
EvaluationResult(c, scores, overall) ==
    [candidate |-> c, actorId |-> ActorId(c), username |-> StoreActor(c).username,
     name |-> StoreActor(c).name, title |-> StoreActor(c).title,
     description |-> StoreActor(c).description, scores |-> scores,
     overallScore |-> overall]

\* What the try block reads of each answer: the scores member of the parsed
\* content, or nothing when the block throws
ScoresRead ==
    [a \in CompletionResponses |->
        IF EvaluationFails(a) THEN None
        ELSE Some(EvalParse(EvalCleaned(a.value)).scores[1])]

\* One iteration of the for loop on the answer a: what it appends to results
Evaluated(c, a) ==
    IF ScoresRead[a] = None THEN {<< >>}
    ELSE {<<EvaluationResult(c, ScoresRead[a][1], o)>> :
             o \in RoundOutcomes(WeightedSum(ScoresRead[a][1], Len(Criteria)))}

----------------------------------------------------------------------------
(* Array.prototype.sort with a comparator that orders by a key, descending, *)
(* as V8 (Node.js) sorts an array shorter than 64 elements: the leading run *)
(* is found (and reversed if it descends), then every later element is      *)
(* placed by a binary insertion.  The sort works on `order`, the sequence   *)
(* of the indices of the elements.                                          *)

\* (a, b) => b - a on the keys x and y; the sort reads a NaN as +0
CompareFn(x, y) == IF Minus(y, x).nan THEN 0 ELSE Minus(y, x).val

\* the last index of the run that starts at 1 and has reached j - 1
RECURSIVE RunEnd(_, _, _)
RunEnd(keys, descending, j) ==
    IF j > Len(keys) THEN Len(keys)
    ELSE IF descending = (CompareFn(keys[j], keys[j - 1]) < 0)
    THEN RunEnd(keys, descending, j + 1)
    ELSE j - 1

\* Mutant: a leading run of ties counts as descending
RunDescends_OnTies(keys) == CompareFn(keys[2], keys[1]) <= 0

\* the leading run descends
RunDescends(keys) == CompareFn(keys[2], keys[1]) < 0

\* the length of the leading run (keys has two elements at least)
RunLength(keys) == RunEnd(keys, RunDescends(keys), 3)

\* the order after the leading run is made: a descending run is reversed
MakeRun(keys) ==
    [p \in DOMAIN keys |->
        IF RunDescends(keys) /\ p <= RunLength(keys) THEN RunLength(keys) + 1 - p
        ELSE p]

\* the binary search for the place of the element `pivot` in order[left..right-1]
RECURSIVE InsertionPoint(_, _, _, _, _)
InsertionPoint(keys, order, pivot, left, right) ==
    IF left >= right THEN left
    ELSE LET mid == left + (right - left) \div 2
         IN  IF CompareFn(keys[pivot], keys[order[mid]]) < 0
             THEN InsertionPoint(keys, order, pivot, left, mid)
             ELSE InsertionPoint(keys, order, pivot, mid + 1, right)

\* the binary insertion of the elements at start and behind
RECURSIVE InsertFrom(_, _, _)
InsertFrom(keys, order, start) ==
    IF start > Len(order) THEN order
    ELSE Only({InsertFrom(keys,
                          SubSeq(order, 1, at - 1) \o <<order[start]>>
                              \o SubSeq(order, at, start - 1)
                              \o SubSeq(order, start + 1, Len(order)),
                          start + 1) :
                  at \in {InsertionPoint(keys, order, order[start], 1, start)}})

\* the order the sort leaves: the index of the element that comes p-th
SortOrder(keys) ==
    IF Len(keys) < 2 THEN [p \in DOMAIN keys |-> p]
    ELSE Only({InsertFrom(keys, order, start) :
                  order \in {MakeRun(keys)}, start \in {RunLength(keys) + 1}})

Reordered(list, order) == Only({[p \in DOMAIN list |-> list[o[p]]] : o \in {order}})

\* .slice(0, k)
Slice(list, k) == SubSeq(list, 1, Min(k, Len(list)))

----------------------------------------------------------------------------
(* The ranking *)

ScoutPrograms == {"part_000", "part_001"}

\* evaluations.sort((a, b) => b.overallScore - a.overallScore)
SortedEvaluations(evals) ==
    Only({Reordered(evals, SortOrder(keys)) :
             keys \in {[j \in DOMAIN evals |-> evals[j].overallScore]}})

\* { ...e, rank: j }
RankedEntry(e, j) ==
    [candidate |-> e.candidate, actorId |-> e.actorId, username |-> e.username,
     name |-> e.name, title |-> e.title, description |-> e.description,
     scores |-> e.scores, overallScore |-> e.overallScore, rank |-> j]

\* .map((e, i) => ({ ...e, rank: i + 1 }))  (part_000 only)
WithRank(prog, list) ==
    IF prog = "part_000" THEN [j \in DOMAIN list |-> RankedEntry(list[j], j)]
    ELSE list

\* const ranked = evaluations.sort(...).slice(0, maxActors)
rank(prog, evals, k) == WithRank(prog, Slice(SortedEvaluations(evals), k))

----------------------------------------------------------------------------
(* processActor *)

Loops == DOMAIN actorsToRun

NewResult(c) ==
    [actorId |-> ActorId(c), inputSchema |-> "{}", attempts |-> 0,
     attemptHistory |-> << >>, success |-> FALSE, finalInput |-> None,
     runId |-> None, runStatus |-> None, runDurationSecs |-> None,
     output |-> None]

\* evaluation?.f for the optional evaluation
EvaluationField(evaluation, f) ==
    IF evaluation = None THEN None ELSE Some(evaluation[1][f])

\* Mutant: the record does not copy the evaluation's scores
ScoredResult_Unscored(c, evaluation) ==
    [actorId |-> ActorId(c), inputSchema |-> "{}", attempts |-> 0,
     attemptHistory |-> << >>, success |-> FALSE, finalInput |-> None,
     runId |-> None, runStatus |-> None, runDurationSecs |-> None,
     output |-> None, scores |-> None, overallScore |-> None]

\* const result: ComparisonResult of part_001, with the evaluation's scores
ScoredResult(c, evaluation) ==
    [actorId |-> ActorId(c), inputSchema |-> "{}", attempts |-> 0,
     attemptHistory |-> << >>, success |-> FALSE, finalInput |-> None,
     runId |-> None, runStatus |-> None, runDurationSecs |-> None,
     output |-> None,
     scores |-> EvaluationField(evaluation, "scores"),
     overallScore |-> EvaluationField(evaluation, "overallScore")]

AttemptRecord(att, input, error) == [attempt |-> att, input |-> input, error |-> error]

Push(res, rec) == [res EXCEPT !.attemptHistory = Append(@, rec)]

\* Mutant: the loop breaks on every failure status
BreaksOnTimeout_AnyStatus(prog, status) == prog = "part_001"

\* run.status === 'TIMED-OUT' -> break  (part_001 only)
BreaksOnTimeout(prog, status) == prog = "part_001" /\ status = "TIMED-OUT"

\* Mutant: the budget test is off by one
LoopCondition_OffByOne(att, res) == att <= MAX_ATTEMPTS /\ ~res.success

\* Mutant: the loop does not test result.success
LoopCondition_NoSuccessTest(att, res) == att < MAX_ATTEMPTS

\* while (attempt < MAX_ATTEMPTS && !result.success)
LoopCondition(att, res) == att < MAX_ATTEMPTS /\ ~res.success

\* The locals of loop i as they stand
Locals(i) ==
    [pc |-> pc[i], attempt |-> attempt[i], lastError |-> lastError[i],
     generatedInput |-> generatedInput[i], prompt |-> prompt[i], text |-> text[i],
     run |-> run[i], result |-> result[i], gen |-> 0, invoke |-> 0, list |-> 0,
     heard |-> None]

\* Mutant: lastError is one variable that all the loops share
Resume_SharedLastError(i, locals) ==
    \E l \in {locals} :
        /\ pc' = [pc EXCEPT ![i] = l.pc]
        /\ attempt' = [attempt EXCEPT ![i] = l.attempt]
        /\ lastError' = [j \in DOMAIN lastError |-> l.lastError]
        /\ generatedInput' = [generatedInput EXCEPT ![i] = l.generatedInput]
        /\ prompt' = [prompt EXCEPT ![i] = l.prompt]
        /\ text' = [text EXCEPT ![i] = l.text]
        /\ run' = [run EXCEPT ![i] = l.run]
        /\ result' = [result EXCEPT ![i] = l.result]
        /\ genCalls' = [genCalls EXCEPT ![i] = @ + l.gen]
        /\ invokeCalls' = [invokeCalls EXCEPT ![i] = @ + l.invoke]
        /\ listCalls' = [listCalls EXCEPT ![i] = @ + l.list]
        /\ heard' = IF l.heard = None THEN heard
                     ELSE [heard EXCEPT ![i] = Append(@, l.heard[1])]
        /\ finished' = IF l.pc = "done" THEN Append(finished, i) ELSE finished
        /\ UNCHANGED <<program, actorsToRun>>
        /\ UNCHANGED mainVars
        /\ UNCHANGED startVars

\* Mutant: a loop that returns without a success zeroes the score of its
\* entry in the shared ranked list
Resume_MarksEvaluation(i, locals) ==
    \E l \in {locals} :
        /\ pc' = [pc EXCEPT ![i] = l.pc]
        /\ attempt' = [attempt EXCEPT ![i] = l.attempt]
        /\ lastError' = [lastError EXCEPT ![i] = l.lastError]
        /\ generatedInput' = [generatedInput EXCEPT ![i] = l.generatedInput]
        /\ prompt' = [prompt EXCEPT ![i] = l.prompt]
        /\ text' = [text EXCEPT ![i] = l.text]
        /\ run' = [run EXCEPT ![i] = l.run]
        /\ result' = [result EXCEPT ![i] = l.result]
        /\ genCalls' = [genCalls EXCEPT ![i] = @ + l.gen]
        /\ invokeCalls' = [invokeCalls EXCEPT ![i] = @ + l.invoke]
        /\ listCalls' = [listCalls EXCEPT ![i] = @ + l.list]
        /\ heard' = IF l.heard = None THEN heard
                     ELSE [heard EXCEPT ![i] = Append(@, l.heard[1])]
        /\ finished' = IF l.pc = "done" THEN Append(finished, i) ELSE finished
        /\ ranked' = IF l.pc = "done" /\ ~l.result.success /\ i \in DOMAIN ranked
                     THEN [ranked EXCEPT ![i].overallScore = JSNum(0)]
                     ELSE ranked
        /\ UNCHANGED <<program, actorsToRun>>
        /\ UNCHANGED <<stage, maxActors, details, evalAnswers, evaluations, output>>
        /\ UNCHANGED startVars

\* Loop i resumes with the locals l; gen, invoke and list count the collaborator
\* calls it makes before it suspends again
Resume(i, locals) ==
    \E l \in {locals} :
        /\ pc' = [pc EXCEPT ![i] = l.pc]
        /\ attempt' = [attempt EXCEPT ![i] = l.attempt]
        /\ lastError' = [lastError EXCEPT ![i] = l.lastError]
        /\ generatedInput' = [generatedInput EXCEPT ![i] = l.generatedInput]
        /\ prompt' = [prompt EXCEPT ![i] = l.prompt]
        /\ text' = [text EXCEPT ![i] = l.text]
        /\ run' = [run EXCEPT ![i] = l.run]
        /\ result' = [result EXCEPT ![i] = l.result]
        /\ genCalls' = [genCalls EXCEPT ![i] = @ + l.gen]
        /\ invokeCalls' = [invokeCalls EXCEPT ![i] = @ + l.invoke]
        /\ listCalls' = [listCalls EXCEPT ![i] = @ + l.list]
        /\ heard' = IF l.heard = None THEN heard
                     ELSE [heard EXCEPT ![i] = Append(@, l.heard[1])]
        /\ finished' = IF l.pc = "done" THEN Append(finished, i) ELSE finished
        /\ UNCHANGED <<program, actorsToRun>>
        /\ UNCHANGED mainVars
        /\ UNCHANGED startVars

\* The head of the while loop, reached with the locals l: either the next
\* attempt starts (attempt++, buildPrompt, generateText) or processActor returns
LoopHead(c, l) ==
    IF LoopCondition(l.attempt, l.result)
    THEN [l EXCEPT !.pc = "generateText",
                   !.attempt = l.attempt + 1,
                   !.result = [l.result EXCEPT !.attempts = l.attempt + 1],
                   !.prompt = buildPrompt(StoreActor(c), l.result.inputSchema, query,
                                          l.lastError, l.attempt + 1),
                   !.gen = 1]
    ELSE [l EXCEPT !.pc = "done"]

\* Mutant: the outer catch numbers its entry with the running attempt
Fatal_NumberedAttempt(l, msg) ==
    [l EXCEPT !.pc = "done",
              !.result = Push(l.result,
                              AttemptRecord(l.attempt, EmptyObject, Some(msg)))]

\* Mutant: the outer catch records nothing
Fatal_NoEntry(l, msg) == [l EXCEPT !.pc = "done"]

\* The outer catch: result.attemptHistory.push({ attempt: 0, input: {}, error })
Fatal(l, msg) ==
    [l EXCEPT !.pc = "done",
              !.result = Push(l.result, AttemptRecord(0, EmptyObject, Some(msg)))]

\* Mutant: a candidate without an input schema is attempted all the same
NoSchema_Attempted(l) ==
    [l EXCEPT !.pc = "generateText", !.attempt = 1, !.result.attempts = 1,
              !.lastError = None, !.gen = 1]

\* if (!inputSchema): push the diagnostic entry and return
NoSchema(l) ==
    [l EXCEPT !.pc = "done",
              !.result = Push(l.result,
                              AttemptRecord(0, EmptyObject, Some("No input schema found")))]

\* Mutant: the failed attempt is not pushed to the history
Failed_NoPush(l, input, err) == [l EXCEPT !.lastError = Some(err)]

\* Mutant: a failed attempt leaves its input in result.finalInput
Failed_RecordsInput(l, input, err) ==
    [l EXCEPT !.lastError = Some(err),
              !.result = [Push(l.result, AttemptRecord(l.attempt, input, Some(err)))
                              EXCEPT !.finalInput = Some(input)]]

\* An attempt fails with the reason err: lastError = err, push the entry
Failed(l, input, err) ==
    [l EXCEPT !.lastError = Some(err),
              !.result = Push(l.result, AttemptRecord(l.attempt, input, Some(err)))]

\* run.stats?.durationMillis ? run.stats.durationMillis / 1000 : undefined
DurationSecs(r) ==
    IF r.durationMillis # None /\ r.durationMillis[1] # 0
    THEN Some(r.durationMillis[1] \div 1000)
    ELSE None

\* Mutant: result.finalInput is not assigned
Succeeded_NoFinalInput(res, input, r) ==
    [res EXCEPT !.success = TRUE, !.runId = Some(r.id),
                !.runStatus = Some(r.status), !.runDurationSecs = DurationSecs(r)]

\* if (run.status === 'SUCCEEDED') { result.success = true; ... }
Succeeded(res, input, r) ==
    [res EXCEPT !.success = TRUE, !.finalInput = input, !.runId = Some(r.id),
                !.runStatus = Some(r.status), !.runDurationSecs = DurationSecs(r)]

\* result.attemptHistory.push({ attempt, input: generatedInput })
PushSuccess(l) ==
    [l EXCEPT !.result = Push(l.result,
                              AttemptRecord(l.attempt, l.generatedInput[1], None))]

\* await client.actor(actorId).defaultBuild() resumes
BuildReturn(i) ==
    /\ pc[i] = "defaultBuild"
    /\ \E a \in BuildResponses :
         Resume(i, IF a.kind = "throw"
                   THEN Fatal(Locals(i), a.message)
                   ELSE [Locals(i) EXCEPT !.pc = "get"])

\* await buildClient.get() resumes
GetReturn(i) ==
    /\ pc[i] = "get"
    /\ \E a \in GetResponses :
         Resume(i, IF a.kind = "throw"
                   THEN Fatal(Locals(i), a.message)
                   ELSE IF a.value = None
                   THEN NoSchema(Locals(i))
                   ELSE LoopHead(actorsToRun[i],
                                 [Locals(i) EXCEPT !.result.inputSchema = a.value[1],
                                                   !.attempt = 0,
                                                   !.lastError = None]))

\* await generateText() resumes; the text is parsed and, if it parses, the
\* candidate is invoked
GenerateStep(i, answers) ==
    /\ pc[i] = "generateText"
    /\ \E a \in answers :
         LET l == [Locals(i) EXCEPT !.text = Some(a)]
         IN  Resume(i, IF a.kind = "throw"
                       THEN Fatal(l, a.message)
                       ELSE IF InputRead[a.value] # None
                       THEN [l EXCEPT !.generatedInput = InputRead[a.value],
                                      !.pc = "call",
                                      !.invoke = 1]
                       ELSE LoopHead(actorsToRun[i],
                                     Failed([l EXCEPT !.generatedInput = None],
                                            EmptyObject, ParseErrorText(a.value))))

GenerateReturn(i) == GenerateStep(i, GenResponses)

\* await client.actor(actorId).call() resumes; the run status is classified
CallStep(i, answers) ==
    /\ pc[i] = "call"
    /\ \E a \in answers :
         LET l == [Locals(i) EXCEPT !.run = Some(a)]
             input == generatedInput[i][1]
         IN  Resume(i,
                 IF a.kind = "throw"
                 THEN LoopHead(actorsToRun[i], Failed(l, input, a.message))
                 ELSE IF a.value.status = "SUCCEEDED"
                 THEN LET ok == [l EXCEPT !.result =
                                     Succeeded(l.result, l.generatedInput, a.value)]
                      IN  IF a.value.defaultDatasetId # None
                          THEN [ok EXCEPT !.pc = "listItems", !.list = 1]
                          ELSE LoopHead(actorsToRun[i], PushSuccess(ok))
                 ELSE LET ko == Failed(l, input, StatusErrorText(a.value.status))
                      IN  IF BreaksOnTimeout(program, a.value.status)
                          THEN [ko EXCEPT !.pc = "done"]
                          ELSE LoopHead(actorsToRun[i], ko))

CallReturn(i) == CallStep(i, CallResponses)

\* await client.dataset().listItems({ limit: 5 }) resumes
ListReturn(i) ==
    /\ pc[i] = "listItems"
    /\ \E a \in ListResponses :
         Resume(i, LoopHead(actorsToRun[i],
                     IF a.kind = "throw"
                     THEN Failed(Locals(i), generatedInput[i][1], a.message)
                     ELSE PushSuccess([Locals(i) EXCEPT
                                          !.result.output = Some(a.value)])))

----------------------------------------------------------------------------
(* The environment of a run: the input, the token, the store *)

\* the value of process.env.APIFY_TOKEN when it is set
ApifyToken == "apify_api_token"

\* an item of the store search: the position it is listed at is its id
Item(j, pricing) == [id |-> j, pricingModel |-> pricing]

\* the input of a run that asks for k actors
InputOf(k) == Some([query |-> Some(query), maxActors |-> Some(k)])

\* the calls the main program makes before it evaluates (part_000,
\* part_001) or runs (main.ts) the candidates
StartupCalls(prog) ==
    IF prog = "main_ts" THEN <<"store.list">>
    ELSE <<"extractSearchTerms", "searchApifyStore", "fetchActorDetails">>

----------------------------------------------------------------------------
(* The batch: actorsToRun.map(processActor) starts every loop, and each    *)
(* runs up to its first await                                              *)

\* const result of the loop of candidate c: part_001 copies the score fields
\* of storeActor._evaluation, main.ts has none
InitialResult(prog, c, evaluation) ==
    IF prog = "part_001" THEN ScoredResult(c, evaluation) ELSE NewResult(c)

\* The loops of the candidates `actors`, selected by the evaluations `evals`,
\* each suspended at its first await
Launch(prog, actors, evals) ==
    [actorsToRun |-> actors,
     pc |-> [i \in DOMAIN actors |-> "defaultBuild"],
     attempt |-> [i \in DOMAIN actors |-> 0],
     lastError |-> [i \in DOMAIN actors |-> None],
     generatedInput |-> [i \in DOMAIN actors |-> None],
     prompt |-> [i \in DOMAIN actors |-> << >>],
     text |-> [i \in DOMAIN actors |-> None],
     run |-> [i \in DOMAIN actors |-> None],
     result |-> [i \in DOMAIN actors |->
                    InitialResult(prog, actors[i],
                                  IF i \in DOMAIN evals THEN Some(evals[i]) ELSE None)],
     genCalls |-> [i \in DOMAIN actors |-> 0],
     invokeCalls |-> [i \in DOMAIN actors |-> 0],
     listCalls |-> [i \in DOMAIN actors |-> 0],
     heard |-> [i \in DOMAIN actors |-> << >>]]

\* the answer that scores every criterion 8
EightsDocument == ScoresDocument(Criteria, <<80, 80, 80, 80, 80, 80, 80>>)

\* The program has selected `actors` and started their loops.  In part_001
\* the candidates come out of the ranking (each answered EightsDocument), in
\* main.ts out of the store search.
StartLoops(prog, actors) ==
    LET evals == IF prog = "part_001"
                 THEN [i \in DOMAIN actors |->
                          EvaluationResult(actors[i], EightsDocument.value.scores[1],
                                           JSNum(80))]
                 ELSE << >>
        l == Launch(prog, actors, evals)
    IN  /\ program = prog
        /\ actorsToRun = l.actorsToRun
        /\ pc = l.pc
        /\ attempt = l.attempt
        /\ lastError = l.lastError
        /\ generatedInput = l.generatedInput
        /\ prompt = l.prompt
        /\ text = l.text
        /\ run = l.run
        /\ result = l.result
        /\ genCalls = l.genCalls
        /\ invokeCalls = l.invokeCalls
        /\ listCalls = l.listCalls
        /\ heard = l.heard
        /\ finished = << >>
        /\ stage = "settle"
        /\ maxActors = Len(actors)
        /\ details = IF prog = "part_001" THEN actors ELSE << >>
        /\ evalAnswers = [i \in DOMAIN evals |->
                             [candidate |-> actors[i],
                              answer |-> Return(EightsDocument.json)]]
        /\ evaluations = evals
        /\ ranked = evals
        /\ output = None
        /\ actorInput = InputOf(Len(actors))
        /\ token = Some(ApifyToken)
        /\ found = Some([j \in DOMAIN actors |-> Item(actors[j], None)])
        /\ called = StartupCalls(prog)
        /\ thrown = None

Init == \E prog \in Programs : StartLoops(prog, <<1>>)

Next ==
    \/ \E i \in Loops : BuildReturn(i)
    \/ \E i \in Loops : GetReturn(i)
    \/ \E i \in Loops : GenerateReturn(i)
    \/ \E i \in Loops : CallReturn(i)
    \/ \E i \in Loops : ListReturn(i)

Spec == Init /\ [][Next]_vars

----------------------------------------------------------------------------
(* The scout: evaluateActors scores the candidates one after the other,    *)
(* then the main program ranks them and, in part_001, starts their loops   *)

(* Bounds of the scout *)

\* largest number of candidates the store search hands over
MaxCandidates == 3

\* largest maxActors of the input
MaxActors == 3

\* candidates.slice(0, maxActors * 2), or maxActors + 2 in part_000
DetailLimit(prog, k) == IF prog = "part_000" THEN k + 2 ELSE k * 2

\* The main program awaits evaluateActors, which awaits its first completion
\* (or has returned already, having no candidate)
StartScout(prog, k, n) ==
    LET l == Launch(prog, << >>, << >>)
    IN  /\ program = prog
        /\ actorsToRun = l.actorsToRun
        /\ pc = l.pc
        /\ attempt = l.attempt
        /\ lastError = l.lastError
        /\ generatedInput = l.generatedInput
        /\ prompt = l.prompt
        /\ text = l.text
        /\ run = l.run
        /\ result = l.result
        /\ genCalls = l.genCalls
        /\ invokeCalls = l.invokeCalls
        /\ listCalls = l.listCalls
        /\ heard = l.heard
        /\ finished = << >>
        /\ stage = IF Min(n, DetailLimit(prog, k)) = 0 THEN "evaluateActors"
                   ELSE "completion"
        /\ maxActors = k
        /\ details = [j \in 1..Min(n, DetailLimit(prog, k)) |-> j]
        /\ evalAnswers = << >>
        /\ evaluations = << >>
        /\ ranked = << >>
        /\ output = None
        /\ actorInput = InputOf(k)
        /\ token = Some(ApifyToken)
        /\ found = Some([j \in 1..n |-> Item(j, None)])
        /\ called = StartupCalls(prog)
        /\ thrown = None

\* await openai.chat.completions.create() resumes in evaluateActors: the
\* iteration of the awaiting candidate ends, and either the next one awaits
\* its completion or evaluateActors returns
\* Mutant: the completions of all candidates are asked at once
InFlight_All(st, ds, answered) ==
    IF st = "completion"
    THEN {j \in DOMAIN ds : \A k \in DOMAIN answered : answered[k].candidate # ds[j]}
    ELSE {}

\* the candidates of ds (their positions) whose completion evaluateActors
\* awaits: its for loop awaits one completion per iteration
InFlight(st, ds, answered) ==
    IF st = "completion" THEN {Len(answered) + 1} ELSE {}

CompletionStep(answers) ==
    /\ stage = "completion"
    /\ \E j \in InFlight(stage, details, evalAnswers) :
       LET c == details[j]
       IN  \E a \in answers : \E new \in Evaluated(c, a) :
             /\ evalAnswers' = Append(evalAnswers, [candidate |-> c, answer |-> a])
             /\ evaluations' = evaluations \o new
    /\ stage' = IF Len(evalAnswers) + 1 = Len(details) THEN "evaluateActors"
                ELSE "completion"
    /\ UNCHANGED <<program, actorsToRun, maxActors, details, ranked, output>>
    /\ UNCHANGED <<loopVars, finished>>
    /\ UNCHANGED startVars

CompletionReturn == CompletionStep(CompletionResponses)

\* await evaluateActors() resumes in the main program: the evaluations are
\* sorted and sliced; part_001 then starts the loop of every ranked
\* candidate, part_000 goes on to save its report
EvaluateActorsReturn ==
    /\ stage = "evaluateActors"
    /\ \E r \in {rank(program, evaluations, maxActors)} :
       \E l \in {IF program = "part_001"
                  THEN Launch(program, [i \in DOMAIN r |-> r[i].candidate], r)
                  ELSE Launch(program, << >>, << >>)} :
           /\ evaluations' = SortedEvaluations(evaluations)
           /\ ranked' = r
           /\ actorsToRun' = l.actorsToRun
           /\ pc' = l.pc
           /\ attempt' = l.attempt
           /\ lastError' = l.lastError
           /\ generatedInput' = l.generatedInput
           /\ prompt' = l.prompt
           /\ text' = l.text
           /\ run' = l.run
           /\ result' = l.result
           /\ genCalls' = l.genCalls
           /\ invokeCalls' = l.invokeCalls
           /\ listCalls' = l.listCalls
           /\ heard' = l.heard
           /\ finished' = << >>
    /\ stage' = IF program = "part_001" THEN "settle" ELSE "setValue"
    /\ UNCHANGED <<program, maxActors, details, evalAnswers, output>>
    /\ UNCHANGED startVars

InitScout ==
    \E prog \in ScoutPrograms : \E k \in 1..MaxActors : \E n \in 0..MaxCandidates :
        StartScout(prog, k, n)

NextScout ==
    \/ CompletionReturn
    \/ EvaluateActorsReturn

SpecScout == InitScout /\ [][NextScout]_vars

----------------------------------------------------------------------------
(* The whole run: the scout (part_001), the concurrent loops of the        *)
(* selected candidates, and the records handed to Actor.pushData           *)

(* Bounds of the run *)

\* largest maxActors of a run of part_001, hence the largest number of its
\* concurrent loops
MaxLoops == 3

\* largest maxActors of a run of main.ts
MaxMainLoops == 2

\* largest number of candidates the store search hands over to a run
MaxFound == 3

\* What the collaborators answer in a run
RunCompletionResponses ==
    { Return(ScoresDocument(Criteria, <<70, 80, 80, 70, 70, 80, 80>>).json),
      Return(EightsDocument.json),
      Return(ScoresDocument(<< >>, << >>).json),
      Throw("Rate limit exceeded") }

RunGenResponses == {Return(JsonA)}

RunCallResponses ==
    {Return(r) : r \in {r \in Runs : r.defaultDatasetId = None \/ r.status # "SUCCEEDED"}}

\* the outcome Promise.allSettled reports for a loop that returned v
Fulfilled(v) == [status |-> "fulfilled", value |-> v]

\* the outcome Promise.allSettled reports for a loop that threw
Rejected(msg) == [status |-> "rejected", reason |-> msg]

\* settled.map((result, i) => ...): the value of a loop that returned, a
\* failed record for one that threw
ComparisonRecord(settled, c, evaluation) ==
    IF settled.status = "fulfilled" THEN settled.value
    ELSE Push(ScoredResult(c, evaluation),
              AttemptRecord(0, EmptyObject, Some(settled.reason)))

\* r.overallScore ?? 0
ScoreOrZero(r) == IF r.overallScore = None THEN JSNum(0) ELSE r.overallScore[1]

\* comparisonResults.sort((a, b) => (b.overallScore ?? 0) - (a.overallScore ?? 0))
sortedResults(records) ==
    Only({Reordered(records, SortOrder(keys)) :
             keys \in {[j \in DOMAIN records |-> ScoreOrZero(records[j])]}})

\* Mutant: the records are collected in the order the loops returned
Emitted_FinishOrder(prog, results, actors, evals) ==
    IF prog = "part_001"
    THEN sortedResults([p \in DOMAIN finished |-> results[finished[p]]])
    ELSE [p \in DOMAIN finished |-> results[finished[p]]]

\* Mutant: the record of a loop that did not succeed is left out
Emitted_DropsFailed(prog, results, actors, evals) ==
    SelectSeq(results, LAMBDA r : r.success)

\* the records the program hands to Actor.pushData: part_001 sorts what
\* Promise.allSettled reports, main.ts emits what Promise.all returns
Emitted(prog, results, actors, evals) ==
    IF prog = "part_001"
    THEN sortedResults([i \in DOMAIN results |->
                           ComparisonRecord(Fulfilled(results[i]), actors[i],
                                            Some(evals[i]))])
    ELSE results

\* Mutant: the main program resumes as soon as one loop has returned
Settle_FirstReturn ==
    /\ stage = "settle"
    /\ \E i \in Loops : pc[i] = "done"
    /\ output' = Some(Emitted(program, result, actorsToRun, ranked))
    /\ stage' = "pushData"
    /\ UNCHANGED <<program, actorsToRun, maxActors, details, evalAnswers,
                   evaluations, ranked>>
    /\ UNCHANGED <<loopVars, finished>>
    /\ UNCHANGED startVars

\* Mutant: the main program resumes only if every loop has succeeded
Settle_AwaitsSuccess ==
    /\ stage = "settle"
    /\ \A i \in Loops : pc[i] = "done" /\ result[i].success
    /\ output' = Some(Emitted(program, result, actorsToRun, ranked))
    /\ stage' = "pushData"
    /\ UNCHANGED <<program, actorsToRun, maxActors, details, evalAnswers,
                   evaluations, ranked>>
    /\ UNCHANGED <<loopVars, finished>>
    /\ UNCHANGED startVars

\* await Promise.allSettled() (Promise.all in main.ts) resumes once every
\* loop has returned: the records are collected, sorted (part_001) and handed
\* to Actor.pushData
Settle ==
    /\ stage = "settle"
    /\ \A i \in Loops : pc[i] = "done"
    /\ output' = Some(Emitted(program, result, actorsToRun, ranked))
    /\ stage' = "pushData"
    /\ UNCHANGED <<program, actorsToRun, maxActors, details, evalAnswers,
                   evaluations, ranked>>
    /\ UNCHANGED <<loopVars, finished>>
    /\ UNCHANGED startVars

CompletionRun == CompletionStep(RunCompletionResponses)

GenerateRun(i) == GenerateStep(i, RunGenResponses)

CallRun(i) == CallStep(i, RunCallResponses)

\* main.ts runs the first maxActors candidates the store search found
InitRun ==
    \/ \E k \in 1..MaxLoops : \E n \in 0..MaxFound : StartScout("part_001", k, n)
    \/ \E k \in 1..MaxMainLoops : \E n \in 0..MaxFound :
           StartLoops("main_ts", [j \in 1..Min(n, k) |-> j])

NextRun ==
    \/ CompletionRun
    \/ EvaluateActorsReturn
    \/ \E i \in Loops : BuildReturn(i)
    \/ \E i \in Loops : GetReturn(i)
    \/ \E i \in Loops : GenerateRun(i)
    \/ \E i \in Loops : CallRun(i)
    \/ Settle

SpecRun == InitRun /\ [][NextRun]_vars

----------------------------------------------------------------------------
(* The run under fair scheduling: every awaited collaborator call returns  *)
(* or raises in the end, so the program keeps taking steps while one is    *)
(* awaited.  The invocations here also succeed with a dataset to list.     *)

\* largest number of concurrent loops of a fair run
MaxLiveLoops == 2

CallLive(i) == CallStep(i, {Return(r) : r \in Runs})

InitLive ==
    \/ \E k \in 1..MaxLiveLoops : \E n \in 0..MaxLiveLoops :
           StartScout("part_001", k, n)
    \/ \E k \in 1..MaxLiveLoops : StartLoops("main_ts", [j \in 1..k |-> j])

NextLive ==
    \/ CompletionRun
    \/ EvaluateActorsReturn
    \/ \E i \in Loops : BuildReturn(i)
    \/ \E i \in Loops : GetReturn(i)
    \/ \E i \in Loops : GenerateRun(i)
    \/ \E i \in Loops : CallLive(i)
    \/ \E i \in Loops : ListReturn(i)
    \/ Settle

SpecLive == InitLive /\ [][NextLive]_vars /\ WF_vars(NextLive)

----------------------------------------------------------------------------
(* The whole program from its first statement: the input and the token are *)
(* read, the store is searched, and the candidates found are evaluated,    *)
(* ranked and run as the program at hand does                              *)

(* Bounds of the start *)

\* largest number of items the store search answers
MaxItems == 2

\* largest maxActors an input asks for
MaxAsked == 2

\* Actor.getInput(): null, or an object whose query and maxActors may be absent
Inputs ==
    {None} \cup
    {Some([query |-> q, maxActors |-> m]) :
        q \in {None, Some(""), Some(query)},
        m \in {None} \cup {Some(k) : k \in 1..MaxAsked}}

\* process.env.APIFY_TOKEN: unset, empty or set
Tokens == {None, Some(""), Some(ApifyToken)}

\* if (!input?.query) throw new Error(...)
QueryMissing(inp) == inp = None \/ ~Truthy(inp[1].query)

\* if (!apifyToken) throw new Error('Missing APIFY_TOKEN'): part_000 has no
\* such test
TokenMissing(prog, tok) == prog # "part_000" /\ ~Truthy(tok)

\* input.maxActors ?? 3, and { maxActors = 5 } = input in part_000
MaxActorsOf(prog, inp) ==
    IF inp[1].maxActors # None THEN inp[1].maxActors[1]
    ELSE IF prog = "part_000" THEN 5 ELSE 3

\* the limit handed to the store search
SearchLimit(prog, k) ==
    IF prog = "part_000" THEN k * 2 ELSE IF prog = "part_001" THEN k * 3 ELSE 50

\* item.currentPricingInfo?.pricingModel
PricingModels == {None, Some("FLAT_PRICE_PER_MONTH"), Some("PRICE_PER_DATASET_ITEM")}

\* extractSearchTerms: the completion answers or fails.  The terms it
\* returns go into the URL of the search and nowhere else.
ExtractResponses == {Return("[\"events\", \"scraper\"]"), Throw("Rate limit exceeded")}

\* what the store lists: at most n items, each with its pricing model
Catalogs(n) ==
    UNION {{[j \in 1..m |-> Item(j, f[j])] : f \in [1..m -> PricingModels]} :
              m \in 0..n}

\* the store's answer to a search with the given limit: its items, or an
\* outage (a response that is not ok; an ApifyApiError in main.ts)
SearchResponses(prog, limit) ==
    {Return(items) : items \in Catalogs(Min(MaxItems, limit))}
        \cup {Throw(IF prog = "main_ts" THEN "Service Unavailable"
                    ELSE "Store API error: 503")}

\* Mutant: the subscription actors are not filtered out
Keeps_All(prog, item) == TRUE

\* .filter(item => item.currentPricingInfo?.pricingModel !==
\* 'FLAT_PRICE_PER_MONTH'): part_000 has no such filter
Keeps(prog, item) ==
    prog = "part_000" \/ item.pricingModel # Some("FLAT_PRICE_PER_MONTH")

\* the candidates the program keeps of the items found
Candidates(prog, items) ==
    Only({[j \in DOMAIN kept |-> kept[j].id] :
             kept \in {SelectSeq(items, LAMBDA it : Keeps(prog, it))}})

\* the search is awaited outside any try: its error ends the main program
SearchFails(a) == a.kind = "throw"

\* Mutant: evaluateActors asks a completion before it looks at its candidates
EvaluateActorsCall_AsksFirst(ds) == "completion"

\* the await evaluateActors is first suspended at: its for loop awaits the
\* completion of the first candidate, or it returns at once
EvaluateActorsCall(ds) == IF ds = << >> THEN "evaluateActors" ELSE "completion"

\* The main program ends with an uncaught error
Abort(msg) ==
    /\ thrown' = Some(msg)
    /\ stage' = "thrown"
    /\ UNCHANGED <<program, actorsToRun, maxActors, details, evalAnswers,
                   evaluations, ranked, output>>
    /\ UNCHANGED <<loopVars, finished>>
    /\ UNCHANGED <<actorInput, token, called>>

\* The loops l start
StartProcessing(l) ==
    /\ actorsToRun' = l.actorsToRun
    /\ pc' = l.pc
    /\ attempt' = l.attempt
    /\ lastError' = l.lastError
    /\ generatedInput' = l.generatedInput
    /\ prompt' = l.prompt
    /\ text' = l.text
    /\ run' = l.run
    /\ result' = l.result
    /\ genCalls' = l.genCalls
    /\ invokeCalls' = l.invokeCalls
    /\ listCalls' = l.listCalls
    /\ heard' = l.heard
    /\ finished' = << >>

\* await Actor.getInput() resumes: the query and the token are tested, the
\* first collaborator is called
GetInputReturn ==
    /\ stage = "getInput"
    /\ IF QueryMissing(actorInput)
       THEN Abort(IF program = "part_000" THEN "Query is required"
                  ELSE "Missing required input: query") /\ UNCHANGED found
       ELSE IF TokenMissing(program, token)
       THEN Abort("Missing APIFY_TOKEN") /\ UNCHANGED found
       ELSE /\ maxActors' = MaxActorsOf(program, actorInput)
            /\ stage' = StartupCalls(program)[1]
            /\ called' = <<StartupCalls(program)[1]>>
            /\ UNCHANGED <<program, actorsToRun, details, evalAnswers,
                           evaluations, ranked, output>>
            /\ UNCHANGED <<loopVars, finished>>
            /\ UNCHANGED <<actorInput, token, found, thrown>>

\* await extractSearchTerms() resumes (part_000, part_001): the store is
\* searched
ExtractReturn ==
    /\ stage = "extractSearchTerms"
    /\ \E a \in ExtractResponses :
         IF a.kind = "throw"
         THEN Abort(a.message) /\ UNCHANGED found
         ELSE /\ stage' = "searchApifyStore"
              /\ called' = Append(called, "searchApifyStore")
              /\ UNCHANGED <<program, actorsToRun, maxActors, details,
                             evalAnswers, evaluations, ranked, output>>
              /\ UNCHANGED <<loopVars, finished>>
              /\ UNCHANGED <<actorInput, token, found, thrown>>

\* await searchApifyStore() resumes (part_000, part_001): the candidates are
\* filtered (part_001), sliced and handed to fetchActorDetails
SearchReturn ==
    /\ stage = "searchApifyStore"
    /\ \E a \in SearchResponses(program, SearchLimit(program, maxActors)) :
         IF SearchFails(a)
         THEN Abort(a.message) /\ UNCHANGED found
         ELSE /\ found' = Some(a.value)
              /\ details' = Slice(Candidates(program, a.value),
                                  DetailLimit(program, maxActors))
              /\ stage' = "fetchActorDetails"
              /\ called' = Append(called, "fetchActorDetails")
              /\ UNCHANGED <<program, actorsToRun, maxActors, evalAnswers,
                             evaluations, ranked, output>>
              /\ UNCHANGED <<loopVars, finished>>
              /\ UNCHANGED <<actorInput, token, thrown>>

\* await fetchActorDetails() resumes: evaluateActors is called
FetchReturn ==
    /\ stage = "fetchActorDetails"
    /\ stage' = EvaluateActorsCall(details)
    /\ UNCHANGED <<program, actorsToRun, maxActors, details, evalAnswers,
                   evaluations, ranked, output>>
    /\ UNCHANGED <<loopVars, finished>>
    /\ UNCHANGED startVars

\* await client.store().list() resumes (main.ts): the items are filtered and
\* sliced, and the loop of every actor left starts
StoreListReturn ==
    /\ stage = "store.list"
    /\ \E a \in SearchResponses(program, SearchLimit(program, maxActors)) :
         IF SearchFails(a)
         THEN Abort(a.message) /\ UNCHANGED found
         ELSE /\ found' = Some(a.value)
              /\ \E l \in {Launch(program,
                                  Slice(Candidates(program, a.value), maxActors),
                                  << >>)} : StartProcessing(l)
              /\ stage' = "settle"
              /\ UNCHANGED <<program, maxActors, details, evalAnswers,
                             evaluations, ranked, output>>
              /\ UNCHANGED <<actorInput, token, called, thrown>>

\* await Actor.setValue('OUTPUT', ...) resumes (part_000): the ranked
\* evaluations are handed to Actor.pushData
SetValueReturn ==
    /\ stage = "setValue"
    /\ output' = Some(ranked)
    /\ stage' = "pushData"
    /\ UNCHANGED <<program, actorsToRun, maxActors, details, evalAnswers,
                   evaluations, ranked>>
    /\ UNCHANGED <<loopVars, finished>>
    /\ UNCHANGED startVars

\* The completions of a run from the start score every criterion 8, or fail
CompletionStart ==
    CompletionStep({Return(EightsDocument.json), Throw("Rate limit exceeded")})

\* The invocations of a run from the start succeed or time out
CallStart(i) ==
    CallStep(i, {Return(r) : r \in {r \in Runs : r.defaultDatasetId = None
                                                  \/ r.status = "TIMED-OUT"}})

\* The program awaits Actor.getInput()
InitStart ==
    \E prog \in ScoutPrograms \cup Programs : \E inp \in Inputs : \E tok \in Tokens :
        \E l \in {Launch(prog, << >>, << >>)} :
            /\ program = prog
            /\ actorsToRun = l.actorsToRun
            /\ pc = l.pc
            /\ attempt = l.attempt
            /\ lastError = l.lastError
            /\ generatedInput = l.generatedInput
            /\ prompt = l.prompt
            /\ text = l.text
            /\ run = l.run
            /\ result = l.result
            /\ genCalls = l.genCalls
            /\ invokeCalls = l.invokeCalls
            /\ listCalls = l.listCalls
            /\ heard = l.heard
            /\ finished = << >>
            /\ stage = "getInput"
            /\ maxActors = 0
            /\ details = << >>
            /\ evalAnswers = << >>
            /\ evaluations = << >>
            /\ ranked = << >>
            /\ output = None
            /\ actorInput = inp
            /\ token = tok
            /\ found = None
            /\ called = << >>
            /\ thrown = None

NextStart ==
    \/ GetInputReturn
    \/ ExtractReturn
    \/ SearchReturn
    \/ FetchReturn
    \/ StoreListReturn
    \/ CompletionStart
    \/ EvaluateActorsReturn
    \/ SetValueReturn
    \/ \E i \in Loops : BuildReturn(i)
    \/ \E i \in Loops : GetReturn(i)
    \/ \E i \in Loops : GenerateRun(i)
    \/ \E i \in Loops : CallStart(i)
    \/ Settle

SpecStart == InitStart /\ [][NextStart]_vars

----------------------------------------------------------------------------
(* The loops replayed one at a time.  Every step of a loop keeps the answer *)
(* its await resumed with, so that the record a loop returns can be set     *)
(* against processActor run alone on the same answers.                      *)

\* the number of concurrent loops
MaxReplayLoops == 2

\* What the collaborator awaited at `at` answers
ReplayAnswers(at) ==
    CASE at = "defaultBuild" -> BuildResponses
      [] at = "get" -> GetResponses
      [] at = "generateText" ->
             {Return(JsonA), Return("Sure! " \o JsonA), Throw("Rate limit exceeded")}
      [] at = "call" ->
             {Return(r) : r \in {r \in Runs : r.status \in {"SUCCEEDED", "FAILED"}}}
      [] at = "listItems" ->
             {Return(ListItems(1, LIST_LIMIT)), Throw("Dataset was not found")}
      [] OTHER -> {}

\* processActor of candidate c, suspended with the locals l, resumes with the
\* answer a of the call it awaits and runs to its next await or its return
Resumed(prog, c, l, a) ==
    CASE l.pc = "defaultBuild" ->
             IF a.kind = "throw" THEN Fatal(l, a.message)
             ELSE [l EXCEPT !.pc = "get"]
      [] l.pc = "get" ->
             IF a.kind = "throw" THEN Fatal(l, a.message)
             ELSE IF a.value = None THEN NoSchema(l)
             ELSE LoopHead(c, [l EXCEPT !.result.inputSchema = a.value[1],
                                        !.attempt = 0,
                                        !.lastError = None])
      [] l.pc = "generateText" ->
             LET m == [l EXCEPT !.text = Some(a)]
             IN  IF a.kind = "throw" THEN Fatal(m, a.message)
                 ELSE IF InputRead[a.value] # None
                 THEN [m EXCEPT !.generatedInput = InputRead[a.value],
                                !.pc = "call",
                                !.invoke = 1]
                 ELSE LoopHead(c, Failed([m EXCEPT !.generatedInput = None],
                                         EmptyObject, ParseErrorText(a.value)))
      [] l.pc = "call" ->
             LET m == [l EXCEPT !.run = Some(a)]
                 input == l.generatedInput[1]
             IN  IF a.kind = "throw"
                 THEN LoopHead(c, Failed(m, input, a.message))
                 ELSE IF a.value.status = "SUCCEEDED"
                 THEN LET ok == [m EXCEPT !.result =
                                     Succeeded(m.result, m.generatedInput, a.value)]
                      IN  IF a.value.defaultDatasetId # None
                          THEN [ok EXCEPT !.pc = "listItems", !.list = 1]
                          ELSE LoopHead(c, PushSuccess(ok))
                 ELSE LET ko == Failed(m, input, StatusErrorText(a.value.status))
                      IN  IF BreaksOnTimeout(prog, a.value.status)
                          THEN [ko EXCEPT !.pc = "done"]
                          ELSE LoopHead(c, ko)
      [] l.pc = "listItems" ->
             LoopHead(c, IF a.kind = "throw"
                         THEN Failed(l, l.generatedInput[1], a.message)
                         ELSE PushSuccess([l EXCEPT !.result.output = Some(a.value)]))

\* the locals of processActor(c) at its first await
Started(prog, c, evaluation) ==
    [pc |-> "defaultBuild", attempt |-> 0, lastError |-> None,
     generatedInput |-> None, prompt |-> << >>, text |-> None, run |-> None,
     result |-> InitialResult(prog, c, evaluation),
     gen |-> 0, invoke |-> 0, list |-> 0, heard |-> None]

\* the locals after the awaits resumed with answers[k], answers[k + 1], ...
RECURSIVE Replayed(_, _, _, _, _)
Replayed(prog, c, l, answers, k) ==
    IF k > Len(answers) THEN l
    ELSE Only({Replayed(prog, c, m, answers, k + 1) :
                  m \in {Resumed(prog, c, l, answers[k])}})

\* the record of processActor(c) run alone, its awaits resuming with `answers`
processActor(prog, c, evaluation, answers) ==
    Replayed(prog, c, Started(prog, c, evaluation), answers, 1).result

\* an await of loop i resumes; the loop keeps the answer
ReplayStep(i) ==
    /\ pc[i] # "done"
    /\ \E a \in ReplayAnswers(pc[i]) :
         Resume(i, [Resumed(program, actorsToRun[i], Locals(i), a)
                       EXCEPT !.heard = Some(a)])

InitReplay ==
    \E prog \in Programs : \E k \in 1..MaxReplayLoops :
        StartLoops(prog, [j \in 1..k |-> j])

NextReplay ==
    \/ \E i \in Loops : ReplayStep(i)
    \/ Settle

SpecReplay == InitReplay /\ [][NextReplay]_vars

----------------------------------------------------------------------------
(* Vocabulary of the properties *)

History(i) == result[i].attemptHistory

Last(h) == h[Len(h)]

Done(i) == pc[i] = "done"

IsReturn(answer) == answer # None /\ answer[1].kind = "return"

IsThrow(answer) == answer # None /\ answer[1].kind = "throw"

\* the last invocation of loop i returned a run with the status st
RunStatus(i, st) == IsReturn(run[i]) /\ run[i][1].value.status = st

\* the last generation answer of loop i was a text that does not parse
Unparsable(answer) == IsReturn(answer) /\ ~JsonParses(Cleaned(answer[1].value))

TypeOK ==
    /\ program \in Programs
    /\ \A i \in Loops :
        /\ pc[i] \in {"defaultBuild", "get", "generateText", "call", "listItems", "done"}
        /\ attempt[i] \in 0..MAX_ATTEMPTS
        /\ result[i].attempts = attempt[i]
        /\ result[i].success \in BOOLEAN
        /\ genCalls[i] \in Nat /\ invokeCalls[i] \in Nat /\ listCalls[i] \in Nat

----------------------------------------------------------------------------
(* The attempt budget and the terminal outcomes *)

\* C1: the attempt history of a candidate never holds more than MAX_ATTEMPTS
\* entries, in any state of its loop and in its final record.
C1_HistoryWithinBudget ==
    \A i \in Loops : Len(History(i)) <= MAX_ATTEMPTS

C1_Witness ==
    \E i \in Loops : Done(i) /\ Len(History(i)) = MAX_ATTEMPTS

\* C2: once an invocation has returned TIMED-OUT the loop has halted: the
\* attempt of the timeout is the last history entry, success is false and no
\* generation call or invocation follows, whatever budget remains.
C2_TimeoutHalts ==
    \A i \in Loops :
        RunStatus(i, "TIMED-OUT") =>
            /\ Done(i)
            /\ ~result[i].success
            /\ Len(History(i)) = attempt[i]
            /\ Last(History(i)).attempt = attempt[i]
            /\ genCalls[i] = attempt[i]

\* C3: after an invocation has returned SUCCEEDED the loop makes no generation
\* call and no invocation, and the only entry still appended is the one of the
\* successful attempt itself (after the output listing).
C3_NothingAfterSuccess ==
    [][\A i \in Loops :
          RunStatus(i, "SUCCEEDED") =>
              /\ genCalls'[i] = genCalls[i]
              /\ invokeCalls'[i] = invokeCalls[i]
              /\ \/ History(i)' = History(i)
                 \/ /\ \A k \in 1..Len(History(i)) : History(i)[k].attempt # attempt[i]
                    /\ Len(History(i)') = Len(History(i)) + 1
                    /\ SubSeq(History(i)', 1, Len(History(i))) = History(i)
                    /\ Last(History(i)').attempt = attempt[i]]_vars

C3_Witness ==
    \E i \in Loops :
        /\ RunStatus(i, "SUCCEEDED") /\ Done(i)
        /\ listCalls[i] = 1
        /\ attempt[i] = 2 /\ Len(History(i)) = 2

\* C4: a final record with success = true has exactly one entry without an
\* error, that entry is the last one and every entry before it carries an error.
C4_OneSuccessEntryLast ==
    \A i \in Loops :
        (Done(i) /\ result[i].success) =>
            /\ Cardinality({k \in 1..Len(History(i)) : History(i)[k].error = None}) = 1
            /\ Len(History(i)) >= 1
            /\ Last(History(i)).error = None
            /\ \A k \in 1..(Len(History(i)) - 1) : History(i)[k].error # None

\* C5: when the invocation of attempt n returns SUCCEEDED after n-1 retryable
\* failures, the final record has success = true, exactly n entries numbered
\* 1..n, the first n-1 of them failures, and finalInput is the input of entry n.
C5_SuccessAtAttemptN ==
    \A i \in Loops :
        (Done(i) /\ RunStatus(i, "SUCCEEDED")) =>
            LET n == attempt[i]
                h == History(i)
            IN  /\ n \in 1..MAX_ATTEMPTS
                /\ result[i].success
                /\ result[i].attempts = n
                /\ Len(h) = n
                /\ \A k \in 1..n : h[k].attempt = k
                /\ \A k \in 1..(n - 1) : h[k].error # None
                /\ result[i].finalInput = Some(h[n].input)

\* Scenario A: unparsable text, then an invocation error, then success
C5_Witness ==
    \E i \in Loops :
        /\ Done(i) /\ RunStatus(i, "SUCCEEDED") /\ result[i].success
        /\ Len(History(i)) = 3
        /\ History(i)[1] = AttemptRecord(1, EmptyObject,
                                         Some(ParseErrorText("Sure! " \o JsonA)))
        /\ History(i)[2] = AttemptRecord(2, JsonParse(JsonA), Some("Input is not valid"))
        /\ History(i)[3] = AttemptRecord(3, JsonParse(JsonB), None)
        /\ result[i].finalInput = Some(JsonParse(JsonB))

\* The first five attempts of loop i all failed and no run succeeded
FiveFailures(i) ==
    /\ Len(History(i)) >= MAX_ATTEMPTS
    /\ \A k \in 1..MAX_ATTEMPTS :
          History(i)[k].attempt = k /\ History(i)[k].error # None
    /\ ~RunStatus(i, "SUCCEEDED")

\* C6: after five failed attempts the loop has stopped: success is false, the
\* history has exactly five entries and no sixth generation call or invocation
\* was made.
C6_StopsAtBudget ==
    \A i \in Loops :
        FiveFailures(i) =>
            /\ Done(i)
            /\ ~result[i].success
            /\ result[i].attempts = MAX_ATTEMPTS
            /\ Len(History(i)) = MAX_ATTEMPTS
            /\ genCalls[i] = MAX_ATTEMPTS
            /\ invokeCalls[i] <= MAX_ATTEMPTS

\* Scenario E with a mix of retryable failures, none of them a timeout
C6_Witness ==
    \E i \in Loops :
        /\ FiveFailures(i) /\ Done(i)
        /\ \A k \in 1..MAX_ATTEMPTS :
              History(i)[k].error # Some(StatusErrorText("TIMED-OUT"))
        /\ History(i)[1].error = Some(ParseErrorText("Sure! " \o JsonA))
        /\ History(i)[4].error = Some("Input is not valid")
        /\ History(i)[5].error = Some(StatusErrorText("FAILED"))

----------------------------------------------------------------------------
(* The classification of one attempt *)

\* loop i takes a step
Stepped(i) == pc'[i] # pc[i] \/ result'[i] # result[i]

IsPrefix(h, g) == Len(h) <= Len(g) /\ SubSeq(g, 1, Len(h)) = h

\* C7: when the generated text of attempt n does not parse, the attempt is
\* recorded as a failure entry numbered n with the empty input, no invocation is
\* made, and the loop goes on with attempt n+1 if n < MAX_ATTEMPTS and returns
\* otherwise.
C7_ParseFailureIsRetryable ==
    [][\A i \in Loops :
          (pc[i] = "generateText" /\ Stepped(i) /\ Unparsable(text'[i])) =>
              LET n == attempt[i]
                  err == Some(ParseErrorText(text'[i][1].value))
              IN  /\ History(i)' = Append(History(i), AttemptRecord(n, EmptyObject, err))
                  /\ lastError'[i] = err
                  /\ invokeCalls'[i] = invokeCalls[i]
                  /\ ~result'[i].success
                  /\ IF n < MAX_ATTEMPTS
                     THEN /\ pc'[i] = "generateText"
                          /\ attempt'[i] = n + 1
                          /\ genCalls'[i] = genCalls[i] + 1
                     ELSE /\ pc'[i] = "done"
                          /\ attempt'[i] = n
                          /\ genCalls'[i] = genCalls[i]]_vars

C7_Witness ==
    \E i \in Loops :
        /\ Unparsable(text[i])
        /\ pc[i] = "generateText" /\ attempt[i] = 2
        /\ History(i) = << AttemptRecord(1, EmptyObject,
                                         Some(ParseErrorText(text[i][1].value))) >>
        /\ genCalls[i] = 2 /\ invokeCalls[i] = 0

\* the answer of an invocation that is neither a success nor a timeout
RetryableCallAnswer(answer) ==
    \/ IsThrow(answer)
    \/ IsReturn(answer) /\ answer[1].value.status \notin {"SUCCEEDED", "TIMED-OUT"}

CallFailureReason(answer) ==
    IF answer[1].kind = "throw"
    THEN answer[1].message
    ELSE StatusErrorText(answer[1].value.status)

\* C8: when the invocation of attempt n ends with a status other than SUCCEEDED
\* and TIMED-OUT, or throws, the attempt is appended to the history with the
\* status or error text as its reason and the loop goes on with attempt n+1 if
\* n < MAX_ATTEMPTS; and no step ever removes or changes a history entry.
C8_InvocationFailureIsRetryable ==
    [][\A i \in Loops :
          /\ IsPrefix(History(i), History(i)')
          /\ (pc[i] = "call" /\ Stepped(i) /\ RetryableCallAnswer(run'[i])) =>
                LET n == attempt[i]
                    err == Some(CallFailureReason(run'[i]))
                IN  /\ History(i)' =
                           Append(History(i),
                                  AttemptRecord(n, generatedInput[i][1], err))
                    /\ lastError'[i] = err
                    /\ ~result'[i].success
                    /\ IF n < MAX_ATTEMPTS
                       THEN pc'[i] = "generateText" /\ attempt'[i] = n + 1
                       ELSE pc'[i] = "done" /\ attempt'[i] = n]_vars

C8_Witness ==
    \E i \in Loops :
        /\ RunStatus(i, "FAILED")
        /\ pc[i] = "generateText" /\ attempt[i] = 3
        /\ History(i)[1].error = Some("")
        /\ History(i)[2] = AttemptRecord(2, generatedInput[i][1],
                                         Some(StatusErrorText("FAILED")))

\* C9 as claimed: when generateText throws at attempt n, the failure is recorded
\* as the entry of attempt n and the loop goes on with attempt n+1 if n < 5.
C9_GenerationErrorIsRetryable ==
    [][\A i \in Loops :
          (pc[i] = "generateText" /\ Stepped(i) /\ IsThrow(text'[i])) =>
              LET n == attempt[i]
              IN  /\ Len(History(i)') = Len(History(i)) + 1
                  /\ Last(History(i)').attempt = n
                  /\ Last(History(i)').error = Some(text'[i][1].message)
                  /\ n < MAX_ATTEMPTS =>
                        pc'[i] = "generateText" /\ attempt'[i] = n + 1]_vars

\* C9 as amended: when generateText throws at attempt n the loop of the
\* candidate ends at once: one diagnostic entry numbered 0 with the error
\* message follows the n-1 failure entries, success stays false, attempts stays
\* n, and neither attempt n is invoked nor any further call made.
C9_GenerationErrorEndsLoop ==
    \A i \in Loops :
        IsThrow(text[i]) =>
            LET n == attempt[i]
            IN  /\ Done(i)
                /\ ~result[i].success
                /\ result[i].attempts = n
                /\ Len(History(i)) = n
                /\ \A k \in 1..(n - 1) :
                      History(i)[k].attempt = k /\ History(i)[k].error # None
                /\ Last(History(i)) =
                       AttemptRecord(0, EmptyObject, Some(text[i][1].message))
                /\ genCalls[i] = n
                /\ invokeCalls[i] <= n - 1

C9_Witness ==
    \E i \in Loops :
        /\ IsThrow(text[i]) /\ Done(i)
        /\ attempt[i] = 2 /\ Len(History(i)) = 2
        /\ History(i)[1].attempt = 1
        /\ History(i)[2].attempt = 0

----------------------------------------------------------------------------
(* The feedback carried by the prompt *)

HasFailureSection(p) ==
    \E k \in 1..Len(p) : StartsWith(p[k], "PREVIOUS ATTEMPT ")

\* the prompt p names the failed attempt m of MAX_ATTEMPTS and quotes reason
QuotesFailure(p, m, reason) ==
    \E k \in 1..(Len(p) - 1) :
        /\ p[k] = "PREVIOUS ATTEMPT " \o ToString(m) \o "/" \o ToString(MAX_ATTEMPTS)
                     \o " FAILED:"
        /\ p[k + 1] = "Error: " \o reason

\* C10: the prompt of attempt 1 has no failure section; the prompt of every
\* attempt n >= 2 quotes the reason stored in the history entry of attempt n-1
\* with the counters n-1 of MAX_ATTEMPTS, whatever the reason text is.
C10_PromptQuotesLastFailure ==
    \A i \in Loops :
        pc[i] = "generateText" =>
            IF attempt[i] = 1
            THEN ~HasFailureSection(prompt[i])
            ELSE QuotesFailure(prompt[i], attempt[i] - 1,
                               History(i)[attempt[i] - 1].error[1])

----------------------------------------------------------------------------
(* Vocabulary of the scout's properties *)

\* the main program has ranked the evaluations
RankingDone == stage \in {"settle", "setValue", "pushData"}

\* x > y as JS answers it: false when either is NaN
Gt(x, y) == ~x.nan /\ ~y.nan /\ x.val > y.val

\* the overall scores of the list do not increase: no entry has a higher
\* score than an entry before it
Descending(list) ==
    \A j, k \in DOMAIN list :
        j < k => ~Gt(list[k].overallScore, list[j].overallScore)

CandidatesOf(list) == {list[j].candidate : j \in DOMAIN list}

\* the entries of the list, the rank field of part_000 left aside
Scored(list) ==
    {[candidate |-> list[j].candidate, overallScore |-> list[j].overallScore] :
        j \in DOMAIN list}

----------------------------------------------------------------------------
(* The ranking *)

\* C11: once the evaluations are ranked, the ranking has min(maxActors, number
\* of scored candidates) entries, its overall scores do not increase, its
\* entries are scored candidates of the input, and no scored candidate left
\* out has a higher overall score than one that was kept.
C11_TopKDescending ==
    RankingDone =>
        /\ Len(ranked) = Min(maxActors, Len(evaluations))
        /\ Descending(ranked)
        /\ Cardinality(CandidatesOf(ranked)) = Len(ranked)
        /\ Scored(ranked) \subseteq Scored(evaluations)
        /\ \A e \in DOMAIN evaluations :
               evaluations[e].candidate \notin CandidatesOf(ranked) =>
                   \A j \in DOMAIN ranked :
                       ~Gt(evaluations[e].overallScore, ranked[j].overallScore)

\* C13: ranking is idempotent: the ranking step applied to its own output,
\* a list of at most maxActors entries whose scores do not increase, returns
\* that list unchanged, element for element.
C13_RankingIdempotent ==
    (RankingDone /\ Descending(ranked) /\ Len(ranked) <= maxActors) =>
        rank(program, ranked, maxActors) = ranked

\* a ranking of three with a tie behind a strictly higher score
C13_Witness ==
    /\ RankingDone /\ Descending(ranked) /\ Len(ranked) = 3
    /\ Gt(ranked[1].overallScore, ranked[2].overallScore)
    /\ ranked[2].overallScore = ranked[3].overallScore
    /\ rank(program, ranked, maxActors) = ranked

----------------------------------------------------------------------------
(* The evaluation *)

\* the candidates whose completion has been answered
Answered == {evalAnswers[k].candidate : k \in DOMAIN evalAnswers}

\* the answer the completion gave for the candidate c
AnswerOf(c) ==
    evalAnswers[CHOOSE k \in DOMAIN evalAnswers : evalAnswers[k].candidate = c].answer

\* the set of the keys of an object
Keys(obj) == {p[1] : p \in obj}

CriteriaSet == {Criteria[j] : j \in DOMAIN Criteria}

\* the answer is a JSON document (fenced or not) whose scores member has the
\* seven criteria
WellShaped(a) ==
    /\ a.kind = "return"
    /\ EvalParses(EvalCleaned(a.value))
    /\ EvalParse(EvalCleaned(a.value)).scores # None
    /\ CriteriaSet \subseteq Keys(EvalParse(EvalCleaned(a.value)).scores[1])

\* the list is in the order the candidates were evaluated in
InEvaluationOrder(list) ==
    \A j, k \in DOMAIN list : j < k => list[j].candidate < list[k].candidate

\* C14: every candidate is asked one completion, in order and never twice;
\* the scored list holds exactly the candidates whose answer could be parsed
\* into the fixed shape, so one whose answer could not, or whose call failed,
\* is absent; and until the ranking sorts it, the scored list is in the
\* original order.
C14_FailureScopedToCandidate ==
    /\ Len(evalAnswers) <= Len(details)
    /\ \A k \in DOMAIN evalAnswers : evalAnswers[k].candidate = details[k]
    /\ CandidatesOf(evaluations) = {c \in Answered : WellShaped(AnswerOf(c))}
    /\ Cardinality(CandidatesOf(evaluations)) = Len(evaluations)
    /\ ~RankingDone => InEvaluationOrder(evaluations)

\* the exact weighted sum of the seven criteria of an entry, in thousandths
ExactSum(scores) ==
    Field(scores, "intentMatch")[1] * 30 + Field(scores, "reliability")[1] * 20
        + Field(scores, "documentation")[1] * 15 + Field(scores, "pricing")[1] * 15
        + Field(scores, "maintenance")[1] * 10 + Field(scores, "communityTrust")[1] * 5
        + Field(scores, "inputComplexity")[1] * 5

\* C15: every entry of the scored list has an overall score that is the
\* weighted sum of its seven criterion scores rounded to one decimal (at most
\* half a tenth away from it), and that lies in [1.0, 10.0].
C15_OverallScoreIsWeightedSum ==
    \A j \in DOMAIN evaluations :
        LET e == evaluations[j]
        IN  /\ ~e.overallScore.nan
            /\ CriteriaSet \subseteq Keys(e.scores)
            /\ e.overallScore.val * 100 - ExactSum(e.scores) \in -50..50
            /\ e.overallScore.val \in 10..100

\* C16: every entry of the scored list has a scores mapping with exactly the
\* seven fixed criteria, each value an integer in 1..10.
C16_SevenIntegerScores ==
    \A j \in DOMAIN evaluations :
        /\ Keys(evaluations[j].scores) = CriteriaSet
        /\ \A p \in evaluations[j].scores : p[2] % 10 = 0 /\ p[2] \in 10..100

----------------------------------------------------------------------------
(* Vocabulary of the run's properties *)

\* the records handed to Actor.pushData, once they are
Out == output[1]

\* the record carries an overall score
HasScore(r) == "overallScore" \in DOMAIN r /\ r.overallScore # None

\* the selected candidate a record is about
CandidateOf(r) ==
    CHOOSE c \in {actorsToRun[i] : i \in Loops} : ActorId(c) = r.actorId

\* the place of loop i in the order the loops returned
FinishedAt(i) == CHOOSE p \in DOMAIN finished : finished[p] = i

\* the candidates whose evaluation failed
Unscored == {c \in Answered : c \notin CandidatesOf(evaluations)}

----------------------------------------------------------------------------
(* Ties, absent scores and the final order *)

C17_UnscoredStillExecuted ==
    output # None =>
        \A c \in Unscored : \E j \in DOMAIN Out :
            Out[j].actorId = ActorId(c) /\ ~HasScore(Out[j])

\* C17: a candidate whose evaluation failed is left out of the ranking, so it
\* has no loop and no record; every loop of part_001 is the loop of a scored
\* candidate and its record carries the scores of that evaluation from the
\* start to the emitted sequence.  In main.ts, which evaluates nothing, every
\* selected candidate has a loop and its record has no score field.
C17_UnscoredNeverExecuted ==
    /\ (program = "part_001" /\ RankingDone) =>
           /\ \A c \in Unscored : \A i \in Loops : actorsToRun[i] # c
           /\ \A i \in Loops :
                  /\ ranked[i].candidate = actorsToRun[i]
                  /\ result[i].overallScore = Some(ranked[i].overallScore)
                  /\ result[i].scores = Some(ranked[i].scores)
           /\ output # None =>
                  /\ \A c \in Unscored : \A j \in DOMAIN Out :
                         Out[j].actorId # ActorId(c)
                  /\ \A j \in DOMAIN Out : HasScore(Out[j])
    /\ program = "main_ts" =>
           /\ \A i \in Loops : ~HasScore(result[i])
           /\ output # None =>
                  /\ Len(Out) = Len(actorsToRun)
                  /\ \A j \in DOMAIN Out : ~HasScore(Out[j])

\* the evaluation of the second of three candidates failed although
\* maxActors is 3: the others are run and emitted, the second is not
C17_Witness ==
    /\ program = "part_001" /\ output # None
    /\ maxActors = 3 /\ Len(details) = 3
    /\ Unscored = {2}
    /\ Len(Out) = 2
    /\ \A j \in DOMAIN Out : HasScore(Out[j]) /\ Out[j].actorId # ActorId(2)

\* the record has no score
NoScore(r) == ~HasScore(r)

\* C18: in the emitted sequence no record has a higher overall score than a
\* record before it, and no record without a score stands before a record
\* with one.
C18_EmittedSorted ==
    output # None =>
        \A j, k \in DOMAIN Out :
            j < k =>
                /\ (HasScore(Out[j]) /\ HasScore(Out[k]))
                       => ~Gt(Out[k].overallScore[1], Out[j].overallScore[1])
                /\ ~(NoScore(Out[j]) /\ HasScore(Out[k]))

----------------------------------------------------------------------------
(* The batch *)

\* the loop i ended without a success: it has returned and its last
\* invocation, if it made one, did not return SUCCEEDED
EndedInFailure(i) == Done(i) /\ ~RunStatus(i, "SUCCEEDED")

\* C19: the emitted sequence holds one record per selected candidate, the
\* record its loop returned, unaltered; a loop that ended in a failure or in
\* an error has a record too, with success = false.
C19_OneRecordPerCandidate ==
    output # None =>
        /\ Len(Out) = Len(actorsToRun)
        /\ \A i \in Loops :
               /\ Cardinality({j \in DOMAIN Out : Out[j] = result[i]}) = 1
               /\ result[i].actorId = ActorId(actorsToRun[i])
               /\ EndedInFailure(i) => ~result[i].success
        /\ \A j \in DOMAIN Out : \E i \in Loops : Out[j] = result[i]

\* one loop succeeded, one ran out of attempts and one (part_001) raised an
\* error before its first attempt: all have their record
C19_Witness ==
    /\ output # None
    /\ \E i, j \in Loops :
          /\ result[i].success
          /\ ~result[j].success /\ Len(History(j)) = MAX_ATTEMPTS
    /\ \E i \in Loops :
          /\ Len(History(i)) = 1 /\ History(i)[1].attempt = 0
    /\ Len(Out) = Len(actorsToRun)

\* C20: a step of the loop of one candidate leaves the attempt counter, the
\* failure reason, the record (its history and success included) and the
\* position of the loop of every other candidate unchanged.
C20_LoopsShareNoState ==
    [][\A i \in Loops :
          Stepped(i) =>
              \A j \in Loops \ {i} :
                  /\ attempt'[j] = attempt[j]
                  /\ lastError'[j] = lastError[j]
                  /\ result'[j] = result[j]
                  /\ pc'[j] = pc[j]
                  /\ generatedInput'[j] = generatedInput[j]]_vars

\* two loops in the middle of different attempts, each with its own failure
\* reason and history
C20_Witness ==
    \E i, j \in Loops :
        /\ attempt[i] = 3 /\ attempt[j] = 2
        /\ pc[i] = "call" /\ pc[j] = "generateText"
        /\ Len(History(i)) = 2 /\ Len(History(j)) = 1
        /\ lastError[i] # lastError[j]

----------------------------------------------------------------------------
(* The order of the stages *)

\* C21: the final records are emitted only after every candidate's loop has
\* reached a terminal state (it has returned: succeeded, not retryable,
\* exhausted, or ended by an error that left a failed record); while a loop
\* is still generating or invoking, nothing is emitted.
C21_EmitsAfterEveryLoop ==
    output # None =>
        /\ \A i \in Loops : Done(i)
        /\ Len(finished) = Len(actorsToRun)
        /\ \A i \in Loops :
               \/ result[i].success
               \/ RunStatus(i, "TIMED-OUT")
               \/ attempt[i] = MAX_ATTEMPTS
               \/ Last(History(i)).attempt = 0

\* three loops have returned, one with a success and one without, and the
\* records are emitted
C21_Witness ==
    /\ output # None
    /\ Len(finished) = 3
    /\ \E i, j \in Loops : result[i].success /\ ~result[j].success

\* C22: at most one scoring completion is awaited at any time; the ranking
\* is made only once every candidate handed to evaluateActors has its
\* answer (a score or a failure); and in the scout programs no loop exists
\* before the ranking is made.
C22_EvaluationSequential ==
    /\ Cardinality(InFlight(stage, details, evalAnswers)) <= 1
    /\ RankingDone => Len(evalAnswers) = Len(details)
    /\ ~RankingDone => ranked = << >>
    /\ program \in ScoutPrograms /\ ~RankingDone => Loops = {}

\* the second of two candidates awaits its completion, no loop exists yet
C22_Witness ==
    /\ program = "part_001"
    /\ stage = "completion"
    /\ Len(details) = 2 /\ Len(evalAnswers) = 1
    /\ Loops = {}

----------------------------------------------------------------------------
(* The start of the run *)

\* the store search has been called and has answered with an error
SearchFailed ==
    /\ called # << >>
    /\ Last(called) \in {"searchApifyStore", "store.list"}
    /\ stage # Last(called)
    /\ found = None

\* the candidate listed at position c is a subscription actor
Subscription(c) == found[1][c].pricingModel = Some("FLAT_PRICE_PER_MONTH")

\* no evaluation, generation or invocation call has been made
NoCandidateCall ==
    /\ evalAnswers = << >>
    /\ InFlight(stage, details, evalAnswers) = {}
    /\ Loops = {}

\* C23: when the store search fails, the run is not aborted: it goes on
\* with no candidate and ends normally, with an empty output sequence.
C23_SearchFailureNotFatal ==
    SearchFailed =>
        /\ thrown = None
        /\ details = << >>
        /\ output # None => Out = << >>

\* C24: when the store search answers no item, no evaluation, generation or
\* invocation call is made, no error is raised, and the output, once
\* emitted, is the empty sequence.
C24_EmptySearchEmptyOutput ==
    found = Some(<< >>) =>
        /\ NoCandidateCall
        /\ thrown = None
        /\ output # None => Out = << >>

\* the scout-and-run program found nothing and has emitted the empty output
C24_Witness ==
    /\ program = "part_001"
    /\ found = Some(<< >>)
    /\ stage = "pushData"
    /\ output = Some(<< >>)

\* C25: when the query is missing or APIFY_TOKEN is absent, the run aborts
\* before any keyword extraction, search, enrichment, evaluation, generation
\* or invocation call.
C25_AbortsBeforeAnyCall ==
    QueryMissing(actorInput) \/ ~Truthy(token) =>
        /\ called = << >>
        /\ NoCandidateCall
        /\ stage # "getInput" => thrown # None

----------------------------------------------------------------------------
(* The fields of a record *)

\* C26: in every emitted record the attempts field is an integer between 1
\* and 5, also in the record of a candidate that has no input schema or
\* whose loop raised an error.
C26_AttemptsBetweenOneAndFive ==
    output # None =>
        \A j \in DOMAIN Out : Out[j].attempts \in 1..MAX_ATTEMPTS

\* C28: the sample output of a record, when present, has at most 5 items,
\* and only a record with success = true has one.
C28_SampleBounded ==
    \A i \in Loops :
        result[i].output # None =>
            /\ Len(result[i].output[1]) <= LIST_LIMIT
            /\ result[i].success

\* a loop has returned with a sample of five items, listed at its third
\* attempt
C28_Witness ==
    \E i \in Loops :
        /\ Done(i)
        /\ result[i].output # None
        /\ Len(result[i].output[1]) = LIST_LIMIT
        /\ result[i].attempts = 3

----------------------------------------------------------------------------
(* Termination and the shared score list *)

\* C29: when every collaborator call returns or raises in the end, the loop
\* of every selected candidate returns in the end, having made at most 5
\* attempts, and the batch emits its output in the end.
C29_EveryLoopEndsAndBatchEmits ==
    /\ \A i \in 1..MaxLiveLoops :
           (i \in Loops) ~> (i \in Loops /\ Done(i) /\ genCalls[i] <= MAX_ATTEMPTS
                                         /\ result[i].attempts <= MAX_ATTEMPTS)
    /\ <>(output # None /\ \A i \in Loops : Done(i))

\* two loops have returned, one after five failed attempts, and the output
\* is emitted
C29_Witness ==
    /\ output # None
    /\ Len(finished) = 2
    /\ \E i \in Loops : Done(i) /\ genCalls[i] = MAX_ATTEMPTS /\ ~result[i].success

\* C30: once the ranking is made, no step of a loop or of the aggregation
\* changes the ranked list: its length, its order and its entries (their
\* scores included) stay as the ranking produced them.
C30_RankedListFrozen ==
    [][RankingDone => ranked' = ranked /\ evaluations' = evaluations]_vars

\* two ranked candidates have been run, one without a success, and the
\* records are emitted: the ranked list still holds both entries in order
C30_Witness ==
    /\ output # None
    /\ Len(ranked) = 2
    /\ \E i, j \in Loops : ~result[i].success /\ result[j].success
    /\ \A i \in Loops : ranked[i].candidate = actorsToRun[i]

----------------------------------------------------------------------------
(* The calls of one attempt *)

\* the input that JSON.parse reads out of the generated text
ParsedOf(answer) == Some(JsonParse(Cleaned(answer[1].value)))

\* C31: within one attempt the loop makes exactly one generation call and at
\* most one invocation, and an invocation is made only with the input parsed
\* out of the text generated in that same attempt; so per candidate the
\* invocations never outnumber the generation calls, which never exceed
\* MAX_ATTEMPTS.
C31_OneGenerationOneInvocation ==
    [][\A i \in Loops :
          /\ genCalls'[i] = attempt'[i]
          /\ genCalls'[i] - genCalls[i] \in {0, 1}
          /\ invokeCalls'[i] - invokeCalls[i] \in {0, 1}
          /\ invokeCalls'[i] > invokeCalls[i] =>
                 /\ pc[i] = "generateText" /\ pc'[i] = "call"
                 /\ attempt'[i] = attempt[i]
                 /\ invokeCalls[i] < attempt[i]
                 /\ IsReturn(text'[i]) /\ ~Unparsable(text'[i])
                 /\ generatedInput'[i] = ParsedOf(text'[i])
          /\ invokeCalls'[i] <= genCalls'[i]
          /\ genCalls'[i] <= MAX_ATTEMPTS]_vars

\* the fifth attempt invokes the candidate after one attempt that did not
\* parse and three failed invocations
C31_Witness ==
    \E i \in Loops :
        /\ pc[i] = "call" /\ attempt[i] = MAX_ATTEMPTS
        /\ genCalls[i] = MAX_ATTEMPTS /\ invokeCalls[i] = MAX_ATTEMPTS - 1
        /\ \E n \in DOMAIN History(i) : History(i)[n].input = EmptyObject
        /\ generatedInput[i] = ParsedOf(text[i])

----------------------------------------------------------------------------
(* The shape of a final record *)

Max(a, b) == IF a > b THEN a ELSE b

\* the record carries attempts and a history that fit together
HistoryFits(r) ==
    /\ r.attemptHistory # << >>
    /\ Len(r.attemptHistory) = Max(r.attempts, 1)
    /\ r.attempts = 0 =>
           /\ r.attemptHistory[1].attempt = 0
           /\ r.attemptHistory[1].input = EmptyObject
           /\ r.attemptHistory[1].error # None

\* the records the program emits once every loop has returned
FinalRecords == Emitted(program, result, actorsToRun, ranked)

SuccessFieldsFit(r) ==
    /\ r.success <=> r.finalInput # None
    /\ r.success <=> r.runId # None

\* C33: in every state of a candidate's loop and in its final record,
\* finalInput and runId are set if and only if success is true; a record with
\* success = false carries neither.
C33_FinalInputIffSuccess ==
    /\ \A i \in Loops : SuccessFieldsFit(result[i])
    /\ (\A i \in Loops : Done(i)) =>
           \A p \in DOMAIN FinalRecords : SuccessFieldsFit(FinalRecords[p])

\* a loop that returned after two failed attempts and a success whose output
\* listing failed
C33_Witness ==
    /\ \A i \in Loops : Done(i)
    /\ \E p \in DOMAIN FinalRecords :
           LET r == FinalRecords[p]
           IN  /\ r.success /\ r.attempts = 3
               /\ r.finalInput = Some(JsonParse(JsonA)) /\ r.runId = Some("run-1")
               /\ Last(r.attemptHistory).error # None

----------------------------------------------------------------------------
(* The interleaving of the loops *)

\* storeActor._evaluation of the candidate of loop i
EvaluationOf(i) == IF i \in DOMAIN ranked THEN Some(ranked[i]) ELSE None

\* what a loop holds while it is suspended
LoopState(l) ==
    <<l.pc, l.attempt, l.lastError, l.generatedInput, l.prompt, l.text, l.run,
      l.result>>

\* the loop of every candidate, run alone on the answers it heard
Alone ==
    [i \in DOMAIN actorsToRun |->
        Replayed(program, actorsToRun[i],
                 Started(program, actorsToRun[i], EvaluationOf(i)), heard[i], 1)]

\* the record of every candidate, each loop run alone on the answers it heard
AloneRecords ==
    [i \in DOMAIN actorsToRun |->
        processActor(program, actorsToRun[i], EvaluationOf(i), heard[i])]

\* C34: the emitted sequence of final records, its order and the content of
\* every record, is a function of the ranked list and of each candidate's
\* own sequence of collaborator answers: however the concurrent loops
\* interleave and whichever returns first, every loop stands where
\* processActor stands when run alone on that loop's answers, and the
\* emitted sequence is the records so built, in ranked order (sorted by
\* score in part_001).
C34_OutputIndependentOfInterleaving ==
    /\ \A i \in Loops : LoopState(Locals(i)) = LoopState(Alone[i])
    /\ output # None =>
           Out = IF program = "part_001" THEN sortedResults(AloneRecords)
                 ELSE AloneRecords

\* two loops heard different answers, the second returned first, and the
\* records were emitted
C34_Witness ==
    /\ output # None
    /\ finished = <<2, 1>>
    /\ result[1].success /\ ~result[2].success
    /\ Len(heard[1]) > Len(heard[2]) /\ Len(heard[2]) > 2
    /\ Out[1].actorId = ActorId(actorsToRun[1])

----------------------------------------------------------------------------
(* The candidates that are executed *)

\* the candidates that have a loop
Executed == {actorsToRun[i] : i \in Loops}

\* C35: every candidate that is executed was evaluated beforehand with
\* success: the executed candidates are among the scored ones, so every
\* record, from the start of its loop to the emitted sequence, carries an
\* overallScore and the final sort never falls back on 0 for a missing score.
C35_ExecutedWereEvaluated ==
    (program = "part_001" /\ RankingDone) =>
        /\ Executed \subseteq CandidatesOf(evaluations)
        /\ \A c \in Executed : ScoresRead[AnswerOf(c)] # None
        /\ \A i \in Loops :
               HasScore(result[i]) /\ ScoreOrZero(result[i]) = result[i].overallScore[1]
        /\ output # None =>
               \A j \in DOMAIN Out :
                   HasScore(Out[j]) /\ ScoreOrZero(Out[j]) = Out[j].overallScore[1]

\* the evaluation of the first of three candidates failed and one of the
\* others was scored NaN: the two scored candidates are run and emitted with
\* their scores
C35_Witness ==
    /\ program = "part_001" /\ output # None
    /\ Len(details) = 3 /\ Unscored = {1}
    /\ Executed = {2, 3}
    /\ \E j \in DOMAIN Out : Out[j].overallScore[1].nan
    /\ \E j \in DOMAIN Out : ~Out[j].overallScore[1].nan

----------------------------------------------------------------------------
(* The candidate without an input schema *)

\* the build of the candidate of loop i declared no input schema
NoSchemaHeard(i) ==
    /\ Len(heard[i]) >= 2
    /\ heard[i][2].kind = "return"
    /\ heard[i][2].value = None

NoSchemaEntry == AttemptRecord(0, EmptyObject, Some("No input schema found"))

====
